---- MODULE Spec2Model ----
(***************************************************************************)
(* Model of kwl (src/main.cc): the protocol engine of a Helios KWL         *)
(* EC270/370 Pro bus client.  The serial receive loop of main(), the       *)
(* frame decoder (Paket, Kwl::got_frame, Kwl::print_paket), the frame      *)
(* encoder (Kwl::send_frame and the send_* helpers) and the command        *)
(* sequencer (Kwl::our_turn) are modelled.                                 *)
(*                                                                         *)
(* Bytes are naturals 0..255.  A C array is a sequence; C index i is       *)
(* sequence index i + 1.  Multi-byte reads through pointer casts are       *)
(* modelled for a little-endian host (on which the 32-bit cue test of      *)
(* main matches the bytes 13 00 00 14).                                    *)
(***************************************************************************)
EXTENDS Integers, Sequences, FiniteSets, TLC

VARIABLES
  kwl,           \* the Kwl object: snapshot members and opt_* flags
  our_cnt,       \* static unsigned our_cnt of Kwl::our_turn
  _terminate,    \* global _terminate
  _interactive,  \* global _interactive
  buf,           \* main's uint8_t buf[128]: the bytes written to it so far
  idx,           \* main's idx: number of bytes of the current buffer
  pc,            \* position of the process: "scan", "loop", "exit", ...
  argv,          \* the command-line options not yet scanned
  last4,         \* history: the most recent (up to 4) bytes read from the bus
  out            \* what the last step did: frames written, diagnostics, calls

vars == <<kwl, our_cnt, _terminate, _interactive, buf, idx, pc, argv, last4, out>>

----------------------------------------------------------------------------
(* Bounds of the model *)

\* In loop mode our_cnt is unbounded; the model stops granting turns here.
MaxTurns == 11
\* longest run of bytes the modelled bus delivers without an idle gap into an
\* empty buffer; a run that is within this many bytes of the array's end goes
\* on past it
MaxRun == 5

(* Program constants *)

BufSize == 128
UnknownBypass == 65535
NoSensor == 9990
StatusSize == 27
BypassThreshold == 200
FanDown == 57344
FanUp == 61440
FanAuto == 170
FanDisableAutoBit == 256
TwoStepEnable == 43521
TwoStepDisable == 43520

Var_00_calendar_mon == 0
Var_06_calendar_sun == 6
Var_08_time_hour_min == 8
Var_0e_preheat_temp == 14
Var_0f_party_enabled == 15
Var_10_party_curr_time == 16
Var_11_party_time == 17
Var_14_ext_contact == 20
Var_15_hours_on == 21
Var_16_fan_1_voltage == 22
Var_19_fan_4_voltage == 25
Var_1e_bypass1_temp == 30
Var_35_fan_level == 53
Var_38_change_filter == 56
Var_3a_sensors_temp == 58
Var_3b_sensors_co2 == 59
Var_3c_sensors_humidity == 60
Var_42_party_level == 66
Var_49_nachlaufzeit == 73
Var_4f_preheat_enabled == 79
Var_50_preheat_temp == 80
Var_54_quiet_curr_time == 84
Var_55_quiet_enabled == 85
Var_56_quiet_time == 86
Var_57_quiet_level == 87
Var_60_bypass2_temp == 96

Byte == 0..255

----------------------------------------------------------------------------
(* Integer helpers: the C operators on unsigned values *)

RECURSIVE BitAnd(_, _)
BitAnd(a, b) ==
  IF a = 0 \/ b = 0 THEN 0
  ELSE (a % 2) * (b % 2) + 2 * BitAnd(a \div 2, b \div 2)

RECURSIVE BitOr(_, _)
BitOr(a, b) ==
  IF a = 0 THEN b
  ELSE IF b = 0 THEN a
  ELSE (IF a % 2 = 1 \/ b % 2 = 1 THEN 1 ELSE 0) + 2 * BitOr(a \div 2, b \div 2)

U8(v) == v % 256
U16(v) == v % 65536
\* the low and the high 16 bits of a 32-bit value (the model's 32-bit values
\* stay below 2^31, the largest integer TLC represents)
Lo16(v) == v % 65536
Hi16(v) == v \div 65536

RECURSIVE SumBytes(_, _)
\* sum of the first n bytes of b, as the uint8_t accumulator computes it
SumBytes(b, n) == IF n = 0 THEN 0 ELSE U8(SumBytes(b, n - 1) + b[n])

----------------------------------------------------------------------------
(* Frame encoder: Kwl::send_frame and the send_* helpers.  Each returns    *)
(* the sequence of frames written to the serial port (none or one).        *)

\* send_frame without the +1 of the checksum
SendFramePlainSum(snd) ==
  LET size == Len(snd) IN
  IF size < 4 THEN <<>>
  ELSE LET b1 == [snd EXCEPT ![3] = U8(size - 4)]
       IN <<[b1 EXCEPT ![size] = SumBytes(b1, size - 1)]>>

SendFrame(snd) ==
  LET size == Len(snd) IN
  IF size < 4 THEN <<>>
  ELSE LET b1 == [snd EXCEPT ![3] = U8(size - 4)]
           chksum == U8(SumBytes(b1, size - 1) + 1)
       IN <<[b1 EXCEPT ![size] = chksum]>>

SendGetVar(i) == SendFrame(<<19, 0, 1, U8(i), 0>>)

SendSetVar8(i, val) == SendFrame(<<19, 1, 2, U8(i), U8(val), 0>>)

SendSetVar16(i, val) ==
  SendFrame(<<19, 1, 3, U8(i), U16(val) % 256, U16(val) \div 256, 0>>)

SendSetVar32(i, val) ==
  SendFrame(<<19, 1, 5, U8(i),
              BitAnd(val, 255),
              BitAnd(val \div 256, 255),
              BitAnd(val \div 65536, 255),
              BitAnd(val \div 16777216, 255), 0>>)

----------------------------------------------------------------------------
(* Frame decoder: class Paket.  A paket is a view [_buf, _size, _is_valid] *)
(* over the array starting at the frame's first byte; _buf holds every     *)
(* byte the array is known to contain from there on (bytes past _size are  *)
(* those of later frames or stale ones of earlier buffers), and g is the   *)
(* value a read past them yields (an indeterminate byte).                  *)

Rd(p, i) == IF i < Len(p._buf) THEN p._buf[i + 1] ELSE p.g

\* is_valid_checksum taking the address byte for 13 whatever it is
IsValidChecksumFromSecond(b, size) ==
  U8(SumBytes(b, size - 1) - b[1] + 1 + 19) = b[size]

IsValidChecksum(b, size) == U8(SumBytes(b, size - 1) + 1) = b[size]

\* new_paket with one more byte for the checksum
NewPaketPlusOne(b, size, g) ==
  IF size >= 4
  THEN LET sz == IF size > 4 + b[3] + 1 THEN 4 + b[3] + 1 ELSE size
       IN [_buf |-> b, _size |-> sz, _is_valid |-> IsValidChecksum(b, sz), g |-> g]
  ELSE [_buf |-> b, _size |-> size, _is_valid |-> FALSE, g |-> g]

NewPaket(b, size, g) ==
  IF size >= 4
  THEN LET sz == IF size > 4 + b[3] THEN 4 + b[3] ELSE size
       IN [_buf |-> b, _size |-> sz, _is_valid |-> IsValidChecksum(b, sz), g |-> g]
  ELSE [_buf |-> b, _size |-> size, _is_valid |-> FALSE, g |-> g]

Dsize(p) == Rd(p, 2)

PaketU8(p, i) == IF i < p._size THEN Rd(p, 4 + i) ELSE 0

PaketU16(p, i) ==
  IF i + 4 + 2 * i < p._size
  THEN Rd(p, 4 + 2 * i) + 256 * Rd(p, 5 + 2 * i)
  ELSE 0

\* the 32-bit value as <<low 16 bits, high 16 bits>>
PaketU32(p, i) ==
  IF i + 4 + 4 * i < p._size
  THEN <<Rd(p, 4 + 4 * i) + 256 * Rd(p, 5 + 4 * i),
         Rd(p, 6 + 4 * i) + 256 * Rd(p, 7 + 4 * i)>>
  ELSE <<0, 0>>

IsStartStatus(p) == Rd(p, 0) = 255 /\ Rd(p, 1) = 255

IsStartAddr(p) == p._is_valid /\ Rd(p, 0) >= 16 /\ Rd(p, 0) <= 19

IsPing(p, b0) == p._is_valid /\ Rd(p, 0) = b0 /\ Rd(p, 1) = 0 /\ Dsize(p) = 0

IsStatus(p, i, size) ==
  p._is_valid /\ Rd(p, 1) = 1 /\ Dsize(p) = size /\ Rd(p, 3) = i

IsAck10(p) ==
  p._is_valid /\ Rd(p, 0) = 16 /\ Rd(p, 1) = 5 /\ Dsize(p) = 2 /\ Rd(p, 4) = 85

IsRequest(p, i) ==
  p._is_valid /\ Rd(p, 1) = 0 /\ Dsize(p) = 1 /\ Rd(p, 3) = i

IsFanNoChange(p) ==
  /\ p._is_valid /\ Rd(p, 1) = 1 /\ Dsize(p) = 3
  /\ Rd(p, 3) = Var_35_fan_level /\ Rd(p, 4) = 170 /\ Rd(p, 5) = 187

----------------------------------------------------------------------------
(* Kwl::print_paket: classifies the paket, updates the snapshot members    *)
(* and names the event it prints ("quiet": nothing is printed).            *)

PrintPaket(k, p) ==
  LET ev(e) == [kwl |-> k, ev |-> e] IN
  IF ~k.opt_verbose
     /\ (\/ IsPing(p, 16) \/ IsPing(p, 17) \/ IsPing(p, 18) \/ IsPing(p, 19)
         \/ IsRequest(p, Var_35_fan_level)
         \/ IsRequest(p, Var_3a_sensors_temp)
         \/ IsRequest(p, Var_3b_sensors_co2)
         \/ IsRequest(p, Var_3c_sensors_humidity)
         \/ IsAck10(p)
         \/ IsFanNoChange(p))
  THEN ev("quiet")
  ELSE IF Rd(p, 1) = 5 /\ Dsize(p) = 2 /\ Rd(p, 4) = 85 THEN ev("ack")
  ELSE IF Rd(p, 1) = 1 /\ Dsize(p) = 28 /\ Rd(p, 3) <= Var_06_calendar_sun
       THEN ev("calendar")
  ELSE IF IsStatus(p, Var_0e_preheat_temp, 3) THEN ev("pre-heating temp")
  ELSE IF IsStatus(p, Var_10_party_curr_time, 3)
       THEN [kwl |-> [k EXCEPT !._party = PaketU16(p, 0)], ev |-> "party"]
  ELSE IF IsStatus(p, Var_11_party_time, 3) THEN ev("party time")
  ELSE IF IsStatus(p, Var_15_hours_on, 5) THEN ev("hours on")
  ELSE IF Rd(p, 1) = 1 /\ Dsize(p) = 5
          /\ Rd(p, 3) >= Var_16_fan_1_voltage /\ Rd(p, 3) <= Var_19_fan_4_voltage
       THEN ev("voltage")
  ELSE IF IsStatus(p, Var_1e_bypass1_temp, 3)
       THEN [kwl |-> [k EXCEPT !._bypass = PaketU16(p, 0)], ev |-> "bypass1"]
  ELSE IF IsStatus(p, Var_35_fan_level, 3) THEN ev("set fan")
  ELSE IF IsStatus(p, Var_38_change_filter, 2) THEN ev("change filter")
  ELSE IF IsStatus(p, Var_3a_sensors_temp, 21)
       THEN [kwl |-> [k EXCEPT !._temp = [i \in 1..4 |-> PaketU16(p, i)]],
             ev |-> "quiet"]
  ELSE IF IsStatus(p, Var_3b_sensors_co2, 9) THEN ev("co2")
  ELSE IF IsStatus(p, Var_3c_sensors_humidity, 9) THEN ev("humidity")
  ELSE IF IsStatus(p, Var_42_party_level, 2) THEN ev("party level")
  ELSE IF IsStatus(p, Var_49_nachlaufzeit, 2) THEN ev("nachlaufzeit")
  ELSE IF IsStatus(p, Var_4f_preheat_enabled, 2) THEN ev("pre-heating")
  ELSE IF IsStatus(p, Var_54_quiet_curr_time, 3)
       THEN [kwl |-> [k EXCEPT !._quiet = PaketU16(p, 0)], ev |-> "quiet mode"]
  ELSE IF IsStatus(p, Var_55_quiet_enabled, 2) THEN ev("set quiet")
  ELSE IF IsStatus(p, Var_56_quiet_time, 2) THEN ev("quiet time")
  ELSE IF IsStatus(p, Var_57_quiet_level, 2) THEN ev("quiet level")
  ELSE IF IsStatus(p, Var_60_bypass2_temp, 2) THEN ev("bypass2")
  ELSE IF Rd(p, 0) = 255 /\ Rd(p, 1) = 255
       THEN [kwl |-> [k EXCEPT !._fan_level = Rd(p, 9),
                               !._fan_auto = IF Rd(p, 10) > 0 THEN 1 ELSE 0],
             ev |-> IF p._size # StatusSize THEN "wrong broadcast size"
                    ELSE "status"]
  ELSE ev("uninterpreted")

----------------------------------------------------------------------------
(* Kwl::got_frame: decodes the size bytes at the start of the array arr.   *)
(* st = [kwl, log, pakets]: the object, the events so far (each with the   *)
(* offset and size of its paket) and the increase of _pakets_received.     *)

Logged(st, e, off, p) ==
  Append(st.log, [ev |-> e, off |-> off, size |-> p._size])

UnknownPaket(st, off, p) ==
  IF /\ ~IsPing(p, 49) /\ ~IsPing(p, 50) /\ ~IsPing(p, 52) /\ ~IsPing(p, 56)
     /\ ~IsPing(p, 65) /\ ~IsPing(p, 66) /\ ~IsPing(p, 68) /\ ~IsPing(p, 72)
     /\ ~IsPing(p, 81) /\ ~IsPing(p, 82) /\ ~IsPing(p, 84) /\ ~IsPing(p, 88)
  THEN [st EXCEPT !.log = Logged(st, "unknown", off, p)]
  ELSE [st EXCEPT !.log = Logged(st, "other ping", off, p)]

RECURSIVE GotFrameLoopShortOfThree(_, _, _, _, _)
\* got_frame returning on fewer than three bytes
GotFrameLoopShortOfThree(st, arr, off, size, g) ==
  IF size < 3 THEN st
  ELSE
    LET p == NewPaket(SubSeq(arr, off + 1, Len(arr)), size, g) IN
    IF ~p._is_valid
    THEN [st EXCEPT !.kwl._first_frame = FALSE,
                    !.log = IF st.kwl._first_frame THEN @
                            ELSE Logged(st, "ignoring", off, p)]
    ELSE
      LET st1 == [st EXCEPT !.kwl._first_frame = FALSE, !.pakets = @ + 1] IN
      IF ~IsStartStatus(p) /\ ~IsStartAddr(p)
      THEN UnknownPaket(st1, off, p)
      ELSE
        LET k2 == IF IsStartStatus(p)
                  THEN [st1.kwl EXCEPT
                          !._status_buf = [i \in 1..StatusSize |-> Rd(p, i - 1)]]
                  ELSE st1.kwl
            r == PrintPaket(k2, p)
            st2 == [kwl |-> r.kwl, log |-> Logged(st1, r.ev, off, p),
                    pakets |-> st1.pakets]
        IN GotFrameLoopShortOfThree(st2, arr, off + p._size, size - p._size, g)

RECURSIVE GotFrameLoopSkipsInvalid(_, _, _, _, _)
\* got_frame going on with the bytes after a frame whose checksum fails
GotFrameLoopSkipsInvalid(st, arr, off, size, g) ==
  IF size < 4 THEN st
  ELSE
    LET p == NewPaket(SubSeq(arr, off + 1, Len(arr)), size, g) IN
    IF ~p._is_valid
    THEN GotFrameLoopSkipsInvalid(
           [st EXCEPT !.kwl._first_frame = FALSE,
                      !.log = IF st.kwl._first_frame THEN @
                              ELSE Logged(st, "ignoring", off, p)],
           arr, off + p._size, size - p._size, g)
    ELSE
      LET st1 == [st EXCEPT !.kwl._first_frame = FALSE, !.pakets = @ + 1] IN
      IF ~IsStartStatus(p) /\ ~IsStartAddr(p)
      THEN UnknownPaket(st1, off, p)
      ELSE
        LET k2 == IF IsStartStatus(p)
                  THEN [st1.kwl EXCEPT
                          !._status_buf = [i \in 1..StatusSize |-> Rd(p, i - 1)]]
                  ELSE st1.kwl
            r == PrintPaket(k2, p)
            st2 == [kwl |-> r.kwl, log |-> Logged(st1, r.ev, off, p),
                    pakets |-> st1.pakets]
        IN GotFrameLoopSkipsInvalid(st2, arr, off + p._size, size - p._size, g)

\* got_frame returning after the first frame of a buffer
GotFrameLoopOneFrame(st, arr, off, size, g) ==
  IF size < 4 THEN st
  ELSE
    LET p == NewPaket(SubSeq(arr, off + 1, Len(arr)), size, g) IN
    IF ~p._is_valid
    THEN [st EXCEPT !.kwl._first_frame = FALSE,
                    !.log = IF st.kwl._first_frame THEN @
                            ELSE Logged(st, "ignoring", off, p)]
    ELSE
      LET st1 == [st EXCEPT !.kwl._first_frame = FALSE, !.pakets = @ + 1] IN
      IF ~IsStartStatus(p) /\ ~IsStartAddr(p)
      THEN UnknownPaket(st1, off, p)
      ELSE
        LET k2 == IF IsStartStatus(p)
                  THEN [st1.kwl EXCEPT
                          !._status_buf = [i \in 1..StatusSize |-> Rd(p, i - 1)]]
                  ELSE st1.kwl
            r == PrintPaket(k2, p)
        IN [kwl |-> r.kwl, log |-> Logged(st1, r.ev, off, p),
            pakets |-> st1.pakets]

RECURSIVE GotFrameLoop(_, _, _, _, _)
GotFrameLoop(st, arr, off, size, g) ==
  IF size < 4 THEN st
  ELSE
    LET p == NewPaket(SubSeq(arr, off + 1, Len(arr)), size, g) IN
    IF ~p._is_valid
    THEN [st EXCEPT !.kwl._first_frame = FALSE,
                    !.log = IF st.kwl._first_frame THEN @
                            ELSE Logged(st, "ignoring", off, p)]
    ELSE
      LET st1 == [st EXCEPT !.kwl._first_frame = FALSE, !.pakets = @ + 1] IN
      IF ~IsStartStatus(p) /\ ~IsStartAddr(p)
      THEN UnknownPaket(st1, off, p)
      ELSE
        LET k2 == IF IsStartStatus(p)
                  THEN [st1.kwl EXCEPT
                          !._status_buf = [i \in 1..StatusSize |-> Rd(p, i - 1)]]
                  ELSE st1.kwl
            r == PrintPaket(k2, p)
            st2 == [kwl |-> r.kwl, log |-> Logged(st1, r.ev, off, p),
                    pakets |-> st1.pakets]
        IN GotFrameLoop(st2, arr, off + p._size, size - p._size, g)

GotFrame(k, arr, size, g) ==
  GotFrameLoop([kwl |-> k, log |-> <<>>, pakets |-> 0], arr, 0, size, g)

----------------------------------------------------------------------------
(* Command sequencer: Kwl::our_turn.  Each part of the else-if chain is an *)
(* operator from the object k to [kwl, sent, term]: the object afterwards, *)
(* the frames written, and whether _terminate was set.                     *)

Quiet(k) == [kwl |-> k, sent |-> <<>>, term |-> FALSE]

Emit(k, frames) == [kwl |-> k, sent |-> frames, term |-> FALSE]

TurnSetTime(k) ==
  Emit([k EXCEPT !.opt_set_time = 0],
       SendSetVar16(Var_08_time_hour_min, k.opt_set_time))

\* TurnSetBypass that resolves a toggle without waiting for the reading
TurnSetBypassNoWait(k) ==
  LET target == IF k.opt_set_bypass = UnknownBypass
                THEN (IF k._bypass < BypassThreshold THEN 28 ELSE 18)
                ELSE k.opt_set_bypass
  IN Emit([k EXCEPT !.opt_set_bypass = 0],
          SendSetVar16(Var_1e_bypass1_temp, target * 10))

\* TurnSetBypass with the threshold itself counted as below
TurnSetBypassLe(k) ==
  IF k.opt_set_bypass = UnknownBypass /\ k._bypass = UnknownBypass
  THEN Quiet(k)
  ELSE LET target == IF k.opt_set_bypass = UnknownBypass
                     THEN (IF k._bypass <= BypassThreshold THEN 28 ELSE 18)
                     ELSE k.opt_set_bypass
       IN Emit([k EXCEPT !.opt_set_bypass = 0],
               SendSetVar16(Var_1e_bypass1_temp, target * 10))

\* TurnSetBypass that gives a toggle up when the reading is unknown
TurnSetBypassDropsToggle(k) ==
  IF k.opt_set_bypass = UnknownBypass /\ k._bypass = UnknownBypass
  THEN Quiet([k EXCEPT !.opt_set_bypass = 0])
  ELSE LET target == IF k.opt_set_bypass = UnknownBypass
                     THEN (IF k._bypass < BypassThreshold THEN 28 ELSE 18)
                     ELSE k.opt_set_bypass
       IN Emit([k EXCEPT !.opt_set_bypass = 0],
               SendSetVar16(Var_1e_bypass1_temp, target * 10))

TurnSetBypass(k) ==
  IF k.opt_set_bypass = UnknownBypass /\ k._bypass = UnknownBypass
  THEN Quiet(k)
  ELSE LET target == IF k.opt_set_bypass = UnknownBypass
                     THEN (IF k._bypass < BypassThreshold THEN 28 ELSE 18)
                     ELSE k.opt_set_bypass
       IN Emit([k EXCEPT !.opt_set_bypass = 0],
               SendSetVar16(Var_1e_bypass1_temp, target * 10))

\* TurnFanStep with the two steps of the auto case sent in one turn
TurnFanStepBoth(k) ==
  LET change == IF k.opt_set_fan = FanUp THEN 1 ELSE -1 IN
  IF k._fan_level = -1 THEN Quiet(k)
  ELSE IF \/ (change = -1 /\ (k._fan_level < 2 \/ k._fan_level > 4))
          \/ (change = 1 /\ (k._fan_level < 1 \/ k._fan_level > 3))
  THEN Quiet([k EXCEPT !.opt_set_fan = 0])
  ELSE Emit([k EXCEPT !.opt_set_fan = 0, !._fan_level = -1, !._fan_auto = -1],
            (IF k._fan_auto # 0 THEN SendSetVar16(Var_35_fan_level, 170) ELSE <<>>)
            \o SendSetVar16(Var_35_fan_level, 47872 + k._fan_level + change))

\* TurnFanStep that never disables auto mode first
TurnFanStepDirect(k) ==
  LET change == IF k.opt_set_fan = FanUp THEN 1 ELSE -1 IN
  IF k._fan_level = -1 THEN Quiet(k)
  ELSE IF \/ (change = -1 /\ (k._fan_level < 2 \/ k._fan_level > 4))
          \/ (change = 1 /\ (k._fan_level < 1 \/ k._fan_level > 3))
  THEN Quiet([k EXCEPT !.opt_set_fan = 0])
  ELSE Emit([k EXCEPT !.opt_set_fan = 0, !._fan_level = -1, !._fan_auto = -1],
            SendSetVar16(Var_35_fan_level, 47872 + k._fan_level + change))

\* TurnFanStep that gives the request up while the level is unknown
TurnFanStepDropsUnknown(k) ==
  LET change == IF k.opt_set_fan = FanUp THEN 1 ELSE -1 IN
  IF k._fan_level = -1 THEN Quiet([k EXCEPT !.opt_set_fan = 0])
  ELSE IF \/ (change = -1 /\ (k._fan_level < 2 \/ k._fan_level > 4))
          \/ (change = 1 /\ (k._fan_level < 1 \/ k._fan_level > 3))
  THEN Quiet([k EXCEPT !.opt_set_fan = 0])
  ELSE IF k._fan_auto # 0
  THEN Emit([k EXCEPT !.opt_set_fan = U16(k._fan_level + change),
                      !._fan_level = -1, !._fan_auto = -1],
            SendSetVar16(Var_35_fan_level, 170))
  ELSE Emit([k EXCEPT !.opt_set_fan = 0,
                      !._fan_level = -1, !._fan_auto = -1],
            SendSetVar16(Var_35_fan_level, 47872 + k._fan_level + change))

\* TurnFanStep that keeps an out-of-range request pending
TurnFanStepRetries(k) ==
  LET change == IF k.opt_set_fan = FanUp THEN 1 ELSE -1 IN
  IF k._fan_level = -1 THEN Quiet(k)
  ELSE IF \/ (change = -1 /\ (k._fan_level < 2 \/ k._fan_level > 4))
          \/ (change = 1 /\ (k._fan_level < 1 \/ k._fan_level > 3))
  THEN Quiet(k)
  ELSE IF k._fan_auto # 0
  THEN Emit([k EXCEPT !.opt_set_fan = U16(k._fan_level + change),
                      !._fan_level = -1, !._fan_auto = -1],
            SendSetVar16(Var_35_fan_level, 170))
  ELSE Emit([k EXCEPT !.opt_set_fan = 0,
                      !._fan_level = -1, !._fan_auto = -1],
            SendSetVar16(Var_35_fan_level, 47872 + k._fan_level + change))

\* TurnFanStep that keeps the cached level and auto flag after the write
TurnFanStepKeepsLevel(k) ==
  LET change == IF k.opt_set_fan = FanUp THEN 1 ELSE -1 IN
  IF k._fan_level = -1 THEN Quiet(k)
  ELSE IF \/ (change = -1 /\ (k._fan_level < 2 \/ k._fan_level > 4))
          \/ (change = 1 /\ (k._fan_level < 1 \/ k._fan_level > 3))
  THEN Quiet([k EXCEPT !.opt_set_fan = 0])
  ELSE IF k._fan_auto # 0
  THEN Emit([k EXCEPT !.opt_set_fan = U16(k._fan_level + change)],
            SendSetVar16(Var_35_fan_level, 170))
  ELSE Emit([k EXCEPT !.opt_set_fan = 0],
            SendSetVar16(Var_35_fan_level, 47872 + k._fan_level + change))

\* TurnFanStep that invalidates the cached level but not the auto flag
TurnFanStepKeepsAuto(k) ==
  LET change == IF k.opt_set_fan = FanUp THEN 1 ELSE -1 IN
  IF k._fan_level = -1 THEN Quiet(k)
  ELSE IF \/ (change = -1 /\ (k._fan_level < 2 \/ k._fan_level > 4))
          \/ (change = 1 /\ (k._fan_level < 1 \/ k._fan_level > 3))
  THEN Quiet([k EXCEPT !.opt_set_fan = 0])
  ELSE IF k._fan_auto # 0
  THEN Emit([k EXCEPT !.opt_set_fan = U16(k._fan_level + change),
                      !._fan_level = -1],
            SendSetVar16(Var_35_fan_level, 170))
  ELSE Emit([k EXCEPT !.opt_set_fan = 0, !._fan_level = -1],
            SendSetVar16(Var_35_fan_level, 47872 + k._fan_level + change))

TurnFanStep(k) ==
  LET change == IF k.opt_set_fan = FanUp THEN 1 ELSE -1 IN
  IF k._fan_level = -1 THEN Quiet(k)
  ELSE IF \/ (change = -1 /\ (k._fan_level < 2 \/ k._fan_level > 4))
          \/ (change = 1 /\ (k._fan_level < 1 \/ k._fan_level > 3))
  THEN Quiet([k EXCEPT !.opt_set_fan = 0])
  ELSE IF k._fan_auto # 0
  THEN Emit([k EXCEPT !.opt_set_fan = U16(k._fan_level + change),
                      !._fan_level = -1, !._fan_auto = -1],
            SendSetVar16(Var_35_fan_level, 170))
  ELSE Emit([k EXCEPT !.opt_set_fan = 0,
                      !._fan_level = -1, !._fan_auto = -1],
            SendSetVar16(Var_35_fan_level, 47872 + k._fan_level + change))

\* TurnSetFan that clears the whole intent with the disable-auto write
TurnSetFanForgetsLevel(k) ==
  IF k.opt_set_fan = FanDown \/ k.opt_set_fan = FanUp
  THEN TurnFanStep(k)
  ELSE IF k.opt_set_fan = FanAuto
  THEN Emit([k EXCEPT !.opt_set_fan = 0], SendSetVar16(Var_35_fan_level, 426))
  ELSE IF BitAnd(k.opt_set_fan, FanDisableAutoBit) # 0
  THEN Emit([k EXCEPT !.opt_set_fan = 0], SendSetVar16(Var_35_fan_level, 170))
  ELSE Emit([k EXCEPT !.opt_set_fan = 0],
            SendSetVar16(Var_35_fan_level, 47872 + k.opt_set_fan))

TurnSetFan(k) ==
  IF k.opt_set_fan = FanDown \/ k.opt_set_fan = FanUp
  THEN TurnFanStep(k)
  ELSE IF k.opt_set_fan = FanAuto
  THEN Emit([k EXCEPT !.opt_set_fan = 0], SendSetVar16(Var_35_fan_level, 426))
  ELSE IF BitAnd(k.opt_set_fan, FanDisableAutoBit) # 0
  THEN Emit([k EXCEPT !.opt_set_fan = BitAnd(@, 65535 - FanDisableAutoBit)],
            SendSetVar16(Var_35_fan_level, 170))
  ELSE Emit([k EXCEPT !.opt_set_fan = 0],
            SendSetVar16(Var_35_fan_level, 47872 + k.opt_set_fan))

TurnSetParty(k) ==
  IF k.opt_set_party = TwoStepDisable
  THEN Emit([k EXCEPT !.opt_set_party = 0], SendSetVar8(Var_0f_party_enabled, 0))
  ELSE IF k.opt_set_party = TwoStepEnable
  THEN Emit([k EXCEPT !.opt_set_party = 0], SendSetVar8(Var_0f_party_enabled, 1))
  ELSE Emit([k EXCEPT !.opt_set_party = TwoStepEnable],
            SendSetVar16(Var_11_party_time, k.opt_set_party))

\* TurnSetQuiet that clears the intent with the duration write
TurnSetQuietNoEnable(k) ==
  IF k.opt_set_quiet = TwoStepDisable
  THEN Emit([k EXCEPT !.opt_set_quiet = 0], SendSetVar8(Var_55_quiet_enabled, 0))
  ELSE IF k.opt_set_quiet = TwoStepEnable
  THEN Emit([k EXCEPT !.opt_set_quiet = 0], SendSetVar8(Var_55_quiet_enabled, 1))
  ELSE Emit([k EXCEPT !.opt_set_quiet = 0],
            SendSetVar16(Var_56_quiet_time, k.opt_set_quiet))

TurnSetQuiet(k) ==
  IF k.opt_set_quiet = TwoStepDisable
  THEN Emit([k EXCEPT !.opt_set_quiet = 0], SendSetVar8(Var_55_quiet_enabled, 0))
  ELSE IF k.opt_set_quiet = TwoStepEnable
  THEN Emit([k EXCEPT !.opt_set_quiet = 0], SendSetVar8(Var_55_quiet_enabled, 1))
  ELSE Emit([k EXCEPT !.opt_set_quiet = TwoStepEnable],
            SendSetVar16(Var_56_quiet_time, k.opt_set_quiet))

TurnSetVoltage(k) ==
  Emit([k EXCEPT !.opt_set_voltage = 0],
       SendSetVar32(Var_16_fan_1_voltage - 1 + BitAnd(k.opt_set_voltage, 15),
                    BitOr(Hi16(k.opt_set_voltage),
                          Hi16(k.opt_set_voltage) * 65536)))

\* TurnGetVoltage reading level 4 first
TurnGetVoltageDescending(k) ==
  Emit([k EXCEPT !.opt_get_voltage = @ - 1],
       IF k.opt_get_voltage < 5
       THEN SendGetVar(Var_16_fan_1_voltage - 1 + k.opt_get_voltage)
       ELSE <<>>)

TurnGetVoltage(k) ==
  Emit([k EXCEPT !.opt_get_voltage = @ - 1],
       IF k.opt_get_voltage < 5
       THEN SendGetVar(Var_19_fan_4_voltage + 1 - k.opt_get_voltage)
       ELSE <<>>)

TurnGetPreheating(k) ==
  Emit([k EXCEPT !.opt_get_preheating = @ - 1],
       IF k.opt_get_preheating = 2 THEN SendGetVar(Var_4f_preheat_enabled)
       ELSE IF k.opt_get_preheating = 1 THEN SendGetVar(Var_50_preheat_temp)
       ELSE <<>>)

\* TurnIdle that terminates in loop mode as well
TurnIdleEndsLoop(k, cnt) == [kwl |-> k, sent |-> <<>>, term |-> TRUE]

\* the chain's tail polling in every mode
TurnIdlePollsAlways(k, cnt) ==
  IF cnt % 4 = 3 THEN Emit(k, SendGetVar(Var_3a_sensors_temp))
  ELSE IF k._party # 0 /\ cnt % 8 = 2
  THEN Emit(k, SendGetVar(Var_10_party_curr_time))
  ELSE IF k._quiet # 0 /\ cnt % 8 = 2
  THEN Emit(k, SendGetVar(Var_54_quiet_curr_time))
  ELSE Quiet(k)

\* the low-frequency getters and the termination test (the chain's tail)
TurnIdle(k, cnt) ==
  IF ~k.opt_do_loop THEN [kwl |-> k, sent |-> <<>>, term |-> TRUE]
  ELSE IF cnt % 4 = 3 THEN Emit(k, SendGetVar(Var_3a_sensors_temp))
  ELSE IF k._party # 0 /\ cnt % 8 = 2
  THEN Emit(k, SendGetVar(Var_10_party_curr_time))
  ELSE IF k._quiet # 0 /\ cnt % 8 = 2
  THEN Emit(k, SendGetVar(Var_54_quiet_curr_time))
  ELSE Quiet(k)

\* the GETTER part of the chain
TurnGetters(k, cnt) ==
  IF k.opt_get_bypass = 2
  THEN Emit([k EXCEPT !.opt_get_bypass = 1], SendGetVar(Var_60_bypass2_temp))
  ELSE IF k.opt_get_bypass = 1
  THEN Emit([k EXCEPT !.opt_get_bypass = 0], SendGetVar(Var_1e_bypass1_temp))
  ELSE IF k.opt_get_hours_on
  THEN Emit([k EXCEPT !.opt_get_hours_on = FALSE], SendGetVar(Var_15_hours_on))
  ELSE IF k.opt_get_voltage # 0 THEN TurnGetVoltage(k)
  ELSE IF k.opt_get_party_enabled
  THEN Emit([k EXCEPT !.opt_get_party_enabled = FALSE],
            SendGetVar(Var_10_party_curr_time))
  ELSE IF k.opt_get_party_time
  THEN Emit([k EXCEPT !.opt_get_party_time = FALSE], SendGetVar(Var_11_party_time))
  ELSE IF k.opt_get_party_level
  THEN Emit([k EXCEPT !.opt_get_party_level = FALSE],
            SendGetVar(Var_42_party_level))
  ELSE IF k.opt_get_quiet_enabled
  THEN Emit([k EXCEPT !.opt_get_quiet_enabled = FALSE],
            SendGetVar(Var_54_quiet_curr_time))
  ELSE IF k.opt_get_quiet_time
  THEN Emit([k EXCEPT !.opt_get_quiet_time = FALSE], SendGetVar(Var_56_quiet_time))
  ELSE IF k.opt_get_quiet_level
  THEN Emit([k EXCEPT !.opt_get_quiet_level = FALSE],
            SendGetVar(Var_57_quiet_level))
  ELSE IF k.opt_get_cal # 0
  THEN Emit([k EXCEPT !.opt_get_cal = 0],
            SendGetVar(Var_00_calendar_mon + k.opt_get_cal - 1))
  ELSE IF k.opt_get_preheating # 0 THEN TurnGetPreheating(k)
  ELSE IF k.opt_get_run_on_time
  THEN Emit([k EXCEPT !.opt_get_run_on_time = FALSE],
            SendGetVar(Var_49_nachlaufzeit))
  ELSE IF k.opt_get_filter_time
  THEN Emit([k EXCEPT !.opt_get_filter_time = FALSE],
            SendGetVar(Var_38_change_filter))
  ELSE TurnIdle(k, cnt)

\* TurnSetters with the getters served before the fan, party, quiet and
\* voltage writes
TurnSettersReadsFirst(k, cnt) ==
  IF k.opt_set_time # 0 THEN TurnSetTime(k)
  ELSE IF k.opt_set_bypass # 0 THEN TurnSetBypass(k)
  ELSE IF k.opt_get_bypass # 0 \/ k.opt_get_hours_on THEN TurnGetters(k, cnt)
  ELSE IF k.opt_set_fan # 0 THEN TurnSetFan(k)
  ELSE IF k.opt_set_party # 0 THEN TurnSetParty(k)
  ELSE IF k.opt_set_quiet # 0 THEN TurnSetQuiet(k)
  ELSE IF k.opt_set_voltage # 0 THEN TurnSetVoltage(k)
  ELSE TurnGetters(k, cnt)

\* the SETTER part of the chain
TurnSetters(k, cnt) ==
  IF k.opt_set_time # 0 THEN TurnSetTime(k)
  ELSE IF k.opt_set_bypass # 0 THEN TurnSetBypass(k)
  ELSE IF k.opt_set_fan # 0 THEN TurnSetFan(k)
  ELSE IF k.opt_set_party # 0 THEN TurnSetParty(k)
  ELSE IF k.opt_set_quiet # 0 THEN TurnSetQuiet(k)
  ELSE IF k.opt_set_voltage # 0 THEN TurnSetVoltage(k)
  ELSE TurnGetters(k, cnt)

\* our_turn with the bootstrap read already on the first turn
OurTurnEarly(k, cnt) ==
  IF cnt < 1 THEN Quiet(k)
  ELSE IF k.initial_temp
  THEN Emit([k EXCEPT !.initial_temp = FALSE], SendGetVar(Var_3a_sensors_temp))
  ELSE TurnSetters(k, cnt)

\* our_turn with our_cnt already incremented to cnt
OurTurn(k, cnt) ==
  IF cnt < 2 THEN Quiet(k)
  ELSE IF k.initial_temp
  THEN Emit([k EXCEPT !.initial_temp = FALSE], SendGetVar(Var_3a_sensors_temp))
  ELSE TurnSetters(k, cnt)

----------------------------------------------------------------------------
(* Command line: scan_options.  An option is [c, arg]: the value getopt    *)
(* returns for it and optarg, a sequence of character codes.  Reading the  *)
(* terminating NUL of optarg yields 0.                                     *)

Ch(s, i) == IF i < Len(s) THEN s[i + 1] ELSE 0

IsDigit(c) == c >= 48 /\ c <= 57

RECURSIVE StrtoulFrom(_, _, _)
\* strtoul(s + i, &nptr, 10) for digits only: [val, nptr] with nptr an index
StrtoulFrom(s, i, acc) ==
  IF IsDigit(Ch(s, i)) THEN StrtoulFrom(s, i + 1, acc * 10 + (Ch(s, i) - 48))
  ELSE [val |-> acc, nptr |-> i]

Strtoul(s, i) == StrtoulFrom(s, i, 0)

Scanned(k) == [kwl |-> k, ret |-> 0, interactive |-> FALSE]

Rejected(k, r) == [kwl |-> k, ret |-> r, interactive |-> FALSE]

ScanSetBypass(k, a) ==
  LET u0 == Strtoul(a, 0).val IN
  IF u0 # 0 /\ u0 # 1 /\ (u0 < 18 \/ u0 > 30) THEN Rejected(k, 1)
  ELSE Scanned([k EXCEPT !.opt_set_bypass = U16(u0), !.opt_get_bypass = 2])

ScanSetFan(k, a) ==
  IF Ch(a, 0) = 97 THEN Scanned([k EXCEPT !.opt_set_fan = FanAuto])
  ELSE IF Ch(a, 0) = 109
  THEN IF Ch(a, 1) # 58 THEN Rejected(k, 1)
       ELSE IF Ch(a, 2) < 49 \/ Ch(a, 3) > 52 THEN Rejected(k, 1)
       ELSE Scanned([k EXCEPT
                       !.opt_set_fan = U16(BitOr(FanDisableAutoBit, Ch(a, 2) - 48))])
  ELSE Rejected(k, 1)

ScanSetParty(k, a) ==
  IF Ch(a, 0) = 48 /\ Ch(a, 1) = 0
  THEN Scanned([k EXCEPT !.opt_set_party = TwoStepDisable])
  ELSE IF Ch(a, 0) = 49 /\ Ch(a, 1) = 0
  THEN Scanned([k EXCEPT !.opt_set_party = TwoStepEnable])
  ELSE LET r == Strtoul(a, 0) IN
       IF r.val > 120 \/ Ch(a, r.nptr) # 0 THEN Rejected(k, 1)
       ELSE Scanned([k EXCEPT !.opt_set_party = U16(r.val)])

ScanSetQuiet(k, a) ==
  IF Ch(a, 0) = 48 THEN Scanned([k EXCEPT !.opt_set_quiet = TwoStepDisable])
  ELSE IF Ch(a, 0) = 49
  THEN Scanned([k EXCEPT !.opt_set_quiet = TwoStepEnable])
  ELSE LET r == Strtoul(a, 0) IN
       IF r.val > 120 \/ Ch(a, r.nptr) # 0 THEN Rejected(k, 1)
       ELSE Scanned([k EXCEPT !.opt_set_quiet = U16(r.val)])

ScanSetTime(k, a) ==
  LET r0 == Strtoul(a, 0)
      r1 == Strtoul(a, r0.nptr + 1)
  IN IF r0.val > 23 THEN Rejected(k, 1)
     ELSE IF Ch(a, r0.nptr) # 58 THEN Rejected(k, 1)
     ELSE IF r1.val > 59 THEN Rejected(k, 1)
     ELSE IF Ch(a, r1.nptr) # 0 THEN Rejected(k, 1)
     ELSE Scanned([k EXCEPT !.opt_set_time = U16(U16(r0.val) + U16(r1.val * 256))])

ScanSetVoltage(k, a) ==
  LET r0 == Strtoul(a, 0)
      r1 == Strtoul(a, r0.nptr + 1)
      r2 == Strtoul(a, r1.nptr + 1)
      frac == Ch(a, r1.nptr) # 0
      u1 == r1.val * 10 + (IF frac THEN r2.val ELSE 0)
  IN IF r0.val = 0 \/ r0.val > 4 THEN Rejected(k, 1)
     ELSE IF Ch(a, r0.nptr) # 58 THEN Rejected(k, 1)
     ELSE IF frac /\ Ch(a, r1.nptr) # 46 /\ Ch(a, r1.nptr) # 44 THEN Rejected(k, 1)
     ELSE IF frac /\ Ch(a, r2.nptr) # 0 THEN Rejected(k, 1)
     ELSE IF frac /\ r2.val > 9 THEN Rejected(k, 1)
     ELSE IF u1 > 100 THEN Rejected(k, 1)
     ELSE Scanned([k EXCEPT !.opt_set_voltage = r0.val + u1 * 65536,
                            !.opt_get_voltage = 4])

ScanGetCalendar(k, a) ==
  LET u0 == Strtoul(a, 0).val IN
  IF u0 > 6 THEN Rejected(k, 1)
  ELSE Scanned([k EXCEPT !.opt_get_cal = u0 + 1])

ScanLoop(k) ==
  [kwl |-> [k EXCEPT !.opt_do_loop = TRUE, !.opt_get_bypass = 1,
                     !.opt_get_party_enabled = TRUE,
                     !.opt_get_quiet_enabled = TRUE],
   ret |-> 0, interactive |-> TRUE]

ScanGetAll(k) ==
  Scanned([k EXCEPT !.opt_get_quiet_enabled = TRUE, !.opt_get_quiet_time = TRUE,
                    !.opt_get_quiet_level = TRUE, !.opt_get_party_time = TRUE,
                    !.opt_get_party_level = TRUE, !.opt_get_party_enabled = TRUE,
                    !.opt_get_hours_on = TRUE, !.opt_get_voltage = 4,
                    !.opt_get_bypass = 2, !.opt_get_preheating = 2,
                    !.opt_get_run_on_time = TRUE, !.opt_get_filter_time = TRUE])

\* one iteration of the getopt_long loop: the switch on c
ScanOption(k, c, a) ==
  IF c = "?" THEN Rejected(k, 2)
  ELSE IF c = "get-calendar" THEN ScanGetCalendar(k, a)
  ELSE IF c = "get-hours-on" THEN Scanned([k EXCEPT !.opt_get_hours_on = TRUE])
  ELSE IF c = "b" THEN ScanSetBypass(k, a)
  ELSE IF c = "get-bypass" THEN Scanned([k EXCEPT !.opt_get_bypass = 2])
  ELSE IF c = "i" \/ c = "l" THEN ScanLoop(k)
  ELSE IF c = "f" THEN ScanSetFan(k, a)
  ELSE IF c = "p" THEN ScanSetParty(k, a)
  ELSE IF c = "q" THEN ScanSetQuiet(k, a)
  ELSE IF c = "t" THEN ScanSetTime(k, a)
  ELSE IF c = "v" THEN ScanSetVoltage(k, a)
  ELSE IF c = "get-voltage" THEN Scanned([k EXCEPT !.opt_get_voltage = 4])
  ELSE IF c = "get-quiet-time" THEN Scanned([k EXCEPT !.opt_get_quiet_time = TRUE])
  ELSE IF c = "get-party-time" THEN Scanned([k EXCEPT !.opt_get_party_time = TRUE])
  ELSE IF c = "get-all" THEN ScanGetAll(k)
  ELSE IF c = "get-party-level"
  THEN Scanned([k EXCEPT !.opt_get_party_level = TRUE])
  ELSE IF c = "get-quiet-level"
  THEN Scanned([k EXCEPT !.opt_get_quiet_level = TRUE])
  ELSE IF c = "get-pre-heating" THEN Scanned([k EXCEPT !.opt_get_preheating = 2])
  ELSE IF c = "get-run-on-time"
  THEN Scanned([k EXCEPT !.opt_get_run_on_time = TRUE])
  ELSE IF c = "get-change-filter"
  THEN Scanned([k EXCEPT !.opt_get_filter_time = TRUE])
  ELSE IF c = "get-party-enabled"
  THEN Scanned([k EXCEPT !.opt_get_party_enabled = TRUE])
  ELSE IF c = "get-quiet-enabled"
  THEN Scanned([k EXCEPT !.opt_get_quiet_enabled = TRUE])
  ELSE IF c = "verbose" THEN Scanned([k EXCEPT !.opt_verbose = TRUE])
  ELSE Rejected(k, 1)

----------------------------------------------------------------------------
(* Kwl::print_last_status, run once after the receive loop *)

\* (print_paket reads no byte past the 27 of _status_buf that it models)
PrintLastStatus(k) ==
  IF k._status_buf[3] # 0
  THEN PrintPaket(k, NewPaket(k._status_buf, StatusSize, 0)).kwl
  ELSE k

----------------------------------------------------------------------------
(* The state after construction (the member initialisers of Kwl, the       *)
(* globals, main's locals)                                                 *)

KwlInit ==
  [_temp |-> [i \in 1..4 |-> NoSensor],
   _first_frame |-> TRUE,
   _status_buf |-> [i \in 1..StatusSize |-> 0],
   _fan_level |-> -1,
   _fan_auto |-> -1,
   _bypass |-> UnknownBypass,
   _party |-> 0,
   _quiet |-> 0,
   opt_do_loop |-> FALSE,
   opt_set_time |-> 0,
   opt_set_bypass |-> 0,
   opt_set_fan |-> 0,
   opt_set_party |-> 0,
   opt_set_quiet |-> 0,
   opt_set_voltage |-> 0,
   opt_get_bypass |-> 0,
   opt_get_cal |-> 0,
   opt_get_hours_on |-> FALSE,
   opt_get_party_enabled |-> FALSE,
   opt_get_party_time |-> FALSE,
   opt_get_party_level |-> FALSE,
   opt_get_quiet_enabled |-> FALSE,
   opt_get_quiet_time |-> FALSE,
   opt_get_quiet_level |-> FALSE,
   opt_get_voltage |-> 0,
   opt_get_preheating |-> 0,
   opt_get_run_on_time |-> FALSE,
   opt_get_filter_time |-> FALSE,
   opt_verbose |-> FALSE,
   initial_temp |-> TRUE]

\* out: the step's name and inputs, the frames written to the serial port,
\* the events of got_frame, the increase of _pakets_received and the number
\* of our_turn calls
NoOut(op) ==
  [op |-> op, arg |-> <<>>, sent |-> <<>>, log |-> <<>>, pakets |-> 0, turns |-> 0]

----------------------------------------------------------------------------
(* Inputs of the model: command-line options, bus traffic, keys *)

\* optarg strings as character codes: '0' = 48, ':' = 58, 'a' = 97, 'm' = 109
Options ==
  {[c |-> c, a |-> <<>>] :
     c \in {"?", "get-hours-on", "get-bypass", "l", "get-voltage",
            "get-quiet-time", "get-party-time", "get-all", "get-party-level",
            "get-quiet-level", "get-pre-heating", "get-run-on-time",
            "get-change-filter", "get-party-enabled", "get-quiet-enabled",
            "verbose"}}
  \cup {[c |-> "get-calendar", a |-> a] : a \in {<<48>>, <<54>>, <<55>>}}
  \cup {[c |-> "b", a |-> a] : a \in {<<48>>, <<49>>, <<50, 48>>, <<51, 49>>}}
  \cup {[c |-> "f", a |-> a] :
          a \in {<<97>>, <<109, 58, 49>>, <<109, 58, 52>>, <<109, 58, 48>>, <<120>>,
                 <<109, 58, 57>>}}
  \cup {[c |-> "p", a |-> a] : a \in {<<48>>, <<49>>, <<51, 57>>, <<49, 50, 49>>}}
  \cup {[c |-> "q", a |-> a] : a \in {<<48>>, <<49>>, <<51, 48>>}}
  \cup {[c |-> "t", a |-> a] :
          a \in {<<49, 50, 58, 51, 48>>, <<48, 58, 48>>, <<50, 52, 58, 48>>}}
  \cup {[c |-> "v", a |-> a] :
          a \in {<<49, 58, 53>>, <<52, 58, 50, 46, 53>>, <<53, 58, 49>>}}

\* a frame as a bus device sends it: the bytes b followed by their checksum
Checksummed(b) == Append(b, U8(SumBytes(b, Len(b)) + 1))

StatusFrame16(i, v) == Checksummed(<<16, 1, 3, i, v % 256, v \div 256>>)

\* the 27-byte periodic broadcast: date and time, fan level, auto flag
Broadcast(level, auto) ==
  Checksummed(<<255, 255, 23, 5, 3, 11, 26, 12, 30, level, auto>>
              \o [i \in 1..15 |-> 0])

SensorsFrame ==
  Checksummed(<<16, 1, 21, Var_3a_sensors_temp, 0, 0, 215, 0, 180, 0, 200, 0, 195, 0>>
              \o [i \in 1..10 |-> 0])

CuePing == <<19, 0, 0, 20>>

BusBuffers ==
  {StatusFrame16(Var_1e_bypass1_temp, v) : v \in {195, 200, 205}}
  \cup {Broadcast(2, a) : a \in {0, 1}}

\* values an indeterminate byte is given
Indeterminate == {0, 255}

Keys == {"up", "down", "a", "b", "esc"}

Opt(c, a) == [c |-> c, a |-> a]

\* the command lines of the model: every option alone, loop mode with one
\* more option, and command lines that arm every intent at once
CommandLines ==
  {<<o>> : o \in Options}
  \cup {<<Opt("l", <<>>), o>> :
          o \in {Opt("t", <<49, 50, 58, 51, 48>>), Opt("f", <<109, 58, 49>>),
                 Opt("p", <<51, 57>>)}}
  \cup {<<Opt("t", <<49, 50, 58, 51, 48>>), Opt("b", <<50, 48>>), f,
          Opt("p", <<51, 57>>), Opt("q", <<51, 48>>), Opt("v", <<49, 58, 53>>),
          Opt("get-all", <<>>), Opt("get-calendar", <<54>>)>> :
          f \in {Opt("f", <<97>>), Opt("f", <<109, 58, 52>>)}}

Init ==
  /\ kwl = KwlInit
  /\ our_cnt = 0
  /\ _terminate = FALSE
  /\ _interactive = FALSE
  /\ buf = <<>>
  /\ idx = 0
  /\ pc = "scan"
  /\ argv \in CommandLines
  /\ last4 = <<>>
  /\ out = NoOut("init")

----------------------------------------------------------------------------
(* Actions *)

\* scan_options: one option of the command line
Scan ==
  /\ pc = "scan"
  /\ argv # <<>>
  /\ LET r == ScanOption(kwl, Head(argv).c, Head(argv).a) IN
     /\ kwl' = r.kwl
     /\ _interactive' = (_interactive \/ r.interactive)
     /\ pc' = IF r.ret # 0 THEN "exit" ELSE "scan"
  /\ argv' = Tail(argv)
  /\ out' = [NoOut("scan") EXCEPT !.arg = Head(argv)]
  /\ UNCHANGED <<our_cnt, _terminate, buf, idx, last4>>

\* getopt_long returns -1: the receive loop starts
StartLoop ==
  /\ pc = "scan"
  /\ argv = <<>>
  /\ pc' = "loop"
  /\ out' = NoOut("start")
  /\ UNCHANGED <<kwl, our_cnt, _terminate, _interactive, buf, idx, argv, last4>>

\* the cue was received: main calls our_turn, then tests _terminate
Turn ==
  /\ pc = "loop"
  /\ (kwl.opt_do_loop => our_cnt < MaxTurns)
  /\ \E r \in {OurTurn(kwl, our_cnt + 1)} :
     /\ kwl' = r.kwl
     /\ _terminate' = (_terminate \/ r.term)
     /\ pc' = IF r.term THEN "exit" ELSE "loop"
     /\ out' = [NoOut("turn") EXCEPT !.sent = r.sent, !.turns = 1]
  /\ our_cnt' = our_cnt + 1
  /\ UNCHANGED <<_interactive, buf, idx, argv, last4>>

\* an idle gap ended a buffer, one of bufs: main calls got_frame on it (the
\* buffers are complete frames: no read reaches past them)
FrameOf(bufs) ==
  /\ pc = "loop"
  /\ \E b \in bufs :
       \E r \in {GotFrame(kwl, b, Len(b), 0)} :
       /\ kwl' = r.kwl
       /\ out' = [NoOut("frame") EXCEPT !.log = r.log, !.pakets = r.pakets]
  /\ UNCHANGED <<our_cnt, _terminate, _interactive, buf, idx, pc, argv, last4>>

Frame == FrameOf(BusBuffers)

\* key handling that leaves a fan level waiting to be written alone
KeyPressedKeepsLevel(k, key) ==
  IF key \in {"up", "down", "a"} /\ k.opt_set_fan \in 1..4 THEN k
  ELSE IF key = "up" THEN [k EXCEPT !.opt_set_fan = FanUp]
  ELSE IF key = "down" THEN [k EXCEPT !.opt_set_fan = FanDown]
  ELSE IF key = "a" THEN [k EXCEPT !.opt_set_fan = FanAuto]
  ELSE IF key = "b"
  THEN [k EXCEPT !.opt_set_bypass = UnknownBypass, !.opt_get_bypass = 1]
  ELSE k

KeyPressed(k, key) ==
  IF key = "up" THEN [k EXCEPT !.opt_set_fan = FanUp]
  ELSE IF key = "down" THEN [k EXCEPT !.opt_set_fan = FanDown]
  ELSE IF key = "a" THEN [k EXCEPT !.opt_set_fan = FanAuto]
  ELSE IF key = "b"
  THEN [k EXCEPT !.opt_set_bypass = UnknownBypass, !.opt_get_bypass = 1]
  ELSE k

\* interactive mode: a key was read by peek_input
Key ==
  /\ pc = "loop"
  /\ _interactive
  /\ \E key \in Keys :
       /\ kwl' = KeyPressed(kwl, key)
       /\ pc' = IF key = "esc" THEN "exit" ELSE "loop"
       /\ out' = [NoOut("key") EXCEPT !.arg = key]
  /\ UNCHANGED <<our_cnt, _terminate, _interactive, buf, idx, argv, last4>>

\* after the loop (or a rejected command line): print_last_status, return
Finish ==
  /\ pc = "exit"
  /\ kwl' = PrintLastStatus(kwl)
  /\ pc' = "done"
  /\ out' = NoOut("finish")
  /\ UNCHANGED <<our_cnt, _terminate, _interactive, buf, idx, argv, last4>>

Next == Scan \/ StartLoop \/ Turn \/ Frame \/ Key \/ Finish

Spec == Init /\ [][Next]_vars

----------------------------------------------------------------------------
(* Properties of the command sequencer (specification Spec) *)

\* a step that is one call of our_turn
TurnStep == our_cnt' = our_cnt + 1

\* the turn about to be granted comes after the bootstrap turns
AfterBootstrap == ~kwl.initial_temp

IsWriteOf(f, v) == f[2] = 1 /\ f[4] = v

IsReadOf(f, v) == f[2] = 0 /\ f[4] = v

Frames(sent) == {sent[i] : i \in 1..Len(sent)}

\* the frames of the wire format, written out byte by byte
ReadFrame(v) == Checksummed(<<19, 0, 1, v>>)

WriteFrame16(v, lo, hi) == Checksummed(<<19, 1, 3, v, lo, hi>>)

\* C1: every call of our_turn transmits at most one frame.
C1_AtMostOneFrame == out.op = "turn" => Len(out.sent) <= 1

\* a turn with several intents pending that transmitted exactly one frame
C1_Witness ==
  /\ out.op = "turn" /\ Len(out.sent) = 1
  /\ kwl.opt_set_quiet # 0 /\ kwl.opt_set_voltage # 0 /\ kwl.opt_get_bypass # 0

\* C2: our_turn emits no bypass write for a toggle while the bypass reading
\* is unknown, and no fan-level write for an up/down request while the fan
\* level is unknown.
C2_NoUnresolvedWrite ==
  [][TurnStep =>
       /\ (kwl.opt_set_bypass = UnknownBypass /\ kwl._bypass = UnknownBypass
             => \A f \in Frames(out'.sent) : ~IsWriteOf(f, Var_1e_bypass1_temp))
       /\ (kwl.opt_set_fan \in {FanDown, FanUp} /\ kwl._fan_level = -1
             => \A f \in Frames(out'.sent) : ~IsWriteOf(f, Var_35_fan_level))]_vars

\* a turn after bootstrap that deferred a fan step for want of the fan level
C2_Witness ==
  /\ out.op = "turn" /\ our_cnt > 2 /\ out.sent = <<>>
  /\ kwl.opt_set_time = 0 /\ kwl.opt_set_bypass = 0
  /\ kwl.opt_set_fan \in {FanDown, FanUp} /\ kwl._fan_level = -1

\* C7: a pending bypass toggle with known reading r, once it is the intent
\* served (after bootstrap, no set-time pending), writes 280 (target 28) if
\* r < 200 and 180 (target 18) if r >= 200, and clears the toggle.
C7_BypassToggle ==
  [][TurnStep /\ AfterBootstrap /\ kwl.opt_set_time = 0
       /\ kwl.opt_set_bypass = UnknownBypass /\ kwl._bypass # UnknownBypass
     => /\ out'.sent = <<IF kwl._bypass < 200
                         THEN WriteFrame16(30, 24, 1)
                         ELSE WriteFrame16(30, 180, 0)>>
        /\ kwl'.opt_set_bypass = 0]_vars

\* the toggle resolved at the threshold: reading 200 wrote 180
C7_Witness ==
  /\ out.op = "turn" /\ kwl._bypass = 200 /\ kwl.opt_set_bypass = 0
  /\ out.sent = <<WriteFrame16(30, 180, 0)>>

\* C8: with fan level 2 a pending "down", once it is the intent served,
\* writes level 1 {01 bb} in that turn if the fan is in manual mode; in auto
\* mode it writes "disable auto" {aa 00} and remembers level 1, and the
\* turn that finds the remembered level served writes {01 bb}.
C8_FanStep ==
  [][TurnStep /\ AfterBootstrap /\ kwl.opt_set_time = 0 /\ kwl.opt_set_bypass = 0
     => /\ (kwl.opt_set_fan = FanDown /\ kwl._fan_level = 2 /\ kwl._fan_auto = 0
              => /\ out'.sent = <<WriteFrame16(53, 1, 187)>>
                 /\ kwl'.opt_set_fan = 0)
        /\ (kwl.opt_set_fan = FanDown /\ kwl._fan_level = 2 /\ kwl._fan_auto = 1
              => /\ out'.sent = <<WriteFrame16(53, 170, 0)>>
                 /\ kwl'.opt_set_fan = 1)
        /\ (kwl.opt_set_fan = 1
              => /\ out'.sent = <<WriteFrame16(53, 1, 187)>>
                 /\ kwl'.opt_set_fan = 0)]_vars

\* the first turn of the auto case: a broadcast was seen, the step wrote
\* "disable auto", remembered level 1 and invalidated the cached level
C8_Witness ==
  /\ out.op = "turn" /\ out.sent = <<WriteFrame16(53, 170, 0)>>
  /\ kwl.opt_set_fan = 1 /\ kwl._fan_level = -1 /\ kwl._status_buf[10] = 2

\* C9: the first turn emits nothing and changes no intent; the second turn
\* emits the read of the sensor bundle (0x3a) whatever is pending and
\* changes nothing but initial_temp; from then on initial_temp is false, so
\* the bootstrap read is emitted once.
C9_Bootstrap ==
  /\ [][TurnStep =>
          /\ (our_cnt = 0 => out'.sent = <<>> /\ kwl' = kwl)
          /\ (our_cnt = 1 => /\ out'.sent = <<ReadFrame(58)>>
                             /\ kwl' = [kwl EXCEPT !.initial_temp = FALSE]
                             /\ kwl.initial_temp)]_vars
  /\ [](our_cnt >= 2 <=> ~kwl.initial_temp)

\* the second turn, with a set-time intent pending and left pending
C9_Witness ==
  /\ out.op = "turn" /\ our_cnt = 2 /\ out.sent = <<ReadFrame(58)>>
  /\ kwl.opt_set_time # 0 /\ kwl.opt_get_bypass = 2

\* C10: on every turn after bootstrap with an intent pending, a frame
\* emitted is a command of the first pending intent in the order set time,
\* set bypass, set fan, set party, set quiet, set voltage, get bypass,
\* run-hours, voltages, party status, party time, party level, quiet
\* status, quiet time, quiet level, calendar, pre-heating, run-on time,
\* filter interval.
PendingIntents(k) ==
  <<k.opt_set_time # 0, k.opt_set_bypass # 0, k.opt_set_fan # 0,
    k.opt_set_party # 0, k.opt_set_quiet # 0, k.opt_set_voltage # 0,
    k.opt_get_bypass # 0, k.opt_get_hours_on, k.opt_get_voltage # 0,
    k.opt_get_party_enabled, k.opt_get_party_time, k.opt_get_party_level,
    k.opt_get_quiet_enabled, k.opt_get_quiet_time, k.opt_get_quiet_level,
    k.opt_get_cal # 0, k.opt_get_preheating # 0, k.opt_get_run_on_time,
    k.opt_get_filter_time>>

\* <<kind, variable>> of the commands of each intent, in the same order
IntentCommands ==
  <<{<<1, 8>>}, {<<1, 30>>}, {<<1, 53>>}, {<<1, 15>>, <<1, 17>>},
    {<<1, 85>>, <<1, 86>>}, {<<1, v>> : v \in 22..25},
    {<<0, 96>>, <<0, 30>>}, {<<0, 21>>}, {<<0, v>> : v \in 22..25},
    {<<0, 16>>}, {<<0, 17>>}, {<<0, 66>>}, {<<0, 84>>}, {<<0, 86>>},
    {<<0, 87>>}, {<<0, v>> : v \in 0..6}, {<<0, 79>>, <<0, 80>>},
    {<<0, 73>>}, {<<0, 56>>}>>

TopIntent(k) ==
  CHOOSE i \in 1..19 :
    /\ PendingIntents(k)[i]
    /\ \A j \in 1..(i - 1) : ~PendingIntents(k)[j]

C10_Priority ==
  [][TurnStep /\ AfterBootstrap /\ (\E i \in 1..19 : PendingIntents(kwl)[i])
     => \A f \in Frames(out'.sent) :
          <<f[2], f[4]>> \in IntentCommands[TopIntent(kwl)]]_vars

\* a turn that wrote the party time while the quiet and voltage writes and
\* every read were still pending
C10_Witness ==
  /\ out.op = "turn" /\ out.sent = <<WriteFrame16(17, 39, 0)>>
  /\ kwl.opt_set_party = TwoStepEnable /\ kwl.opt_set_quiet # 0
  /\ kwl.opt_set_voltage # 0 /\ kwl.opt_get_bypass = 2 /\ kwl.opt_get_hours_on
  /\ kwl.opt_get_cal # 0

----------------------------------------------------------------------------
(* The receive loop of main, byte by byte (specification SpecRx): one      *)
(* action is one iteration of the do-while loop.                           *)

\* the bytes the modelled bus delivers (those of the cue)
RxBytes == {19, 0, 20}

\* the cue test on the most recent four bytes, wherever the buffer started
IsCueAnywhere(b, i) ==
  i >= 4 /\ b[i - 3] = 19 /\ b[i - 2] = 0 /\ b[i - 1] = 0 /\ b[i] = 20

\* the cue test after a byte was stored: idx == 4 and the first four bytes
\* of the buffer read as the 32-bit value 0x14000013
IsCue(b, i) == i = 4 /\ b[1] = 19 /\ b[2] = 0 /\ b[3] = 0 /\ b[4] = 20

\* buf[i] = c
StoreAt(b, i, c) == IF i < Len(b) THEN [b EXCEPT ![i + 1] = c] ELSE Append(b, c)

LastFour(s) == IF Len(s) <= 4 THEN s ELSE SubSeq(s, Len(s) - 3, Len(s))

\* the loop body handing the full array to got_frame before it is reset
RxStepOverflowDecodes(bytes, gaps) ==
  /\ pc = "loop"
  /\ \E c \in bytes, gap \in gaps,
        key \in (IF _interactive THEN Keys \cup {"none"} ELSE {"none"}) :
     \E g \in (IF gap THEN Indeterminate ELSE {0}) :
       LET k1 == KeyPressed(kwl, key)
           idx1 == IF gap THEN 0 ELSE idx
           overflow == idx1 >= BufSize
           buf2 == IF overflow THEN buf ELSE StoreAt(buf, idx1, c)
           idx2 == IF overflow THEN 0 ELSE idx1 + 1
           cue == ~overflow /\ IsCue(buf2, idx2)
       IN IF key = "esc"
          THEN /\ pc' = "exit"
               /\ out' = [NoOut("rx") EXCEPT !.arg = <<c, gap, key>>]
               /\ last4' = LastFour(Append(last4, c))
               /\ UNCHANGED <<kwl, our_cnt, _terminate, buf, idx>>
          ELSE /\ (gap \/ idx < MaxRun \/ idx >= BufSize - MaxRun)
               /\ (cue /\ kwl.opt_do_loop => our_cnt < MaxTurns)
               /\ \E fr \in {IF gap \/ idx >= BufSize THEN GotFrame(k1, buf, idx, g)
                             ELSE [kwl |-> k1, log |-> <<>>, pakets |-> 0]} :
                  \E tr \in {IF cue THEN OurTurn(fr.kwl, our_cnt + 1)
                               ELSE Quiet(fr.kwl)} :
                    /\ kwl' = tr.kwl
                    /\ our_cnt' = IF cue THEN our_cnt + 1 ELSE our_cnt
                    /\ _terminate' = (_terminate \/ tr.term)
                    /\ buf' = buf2
                    /\ idx' = idx2
                    /\ pc' = IF tr.term THEN "exit" ELSE "loop"
                    /\ last4' = LastFour(Append(last4, c))
                    /\ out' = [op |-> "rx", arg |-> <<c, gap, key>>, sent |-> tr.sent,
                               log |-> fr.log, pakets |-> fr.pakets,
                               turns |-> IF cue THEN 1 ELSE 0]
  /\ UNCHANGED <<_interactive, argv>>

\* one iteration of the receive loop: the byte read is one of bytes, and
\* gaps tells whether an idle gap may have preceded it
RxStep(bytes, gaps) ==
  /\ pc = "loop"
  /\ \E c \in bytes, gap \in gaps,
        key \in (IF _interactive THEN Keys \cup {"none"} ELSE {"none"}) :
     \E g \in (IF gap THEN Indeterminate ELSE {0}) :
       LET k1 == KeyPressed(kwl, key)
           idx1 == IF gap THEN 0 ELSE idx
           overflow == idx1 >= BufSize
           buf2 == IF overflow THEN buf ELSE StoreAt(buf, idx1, c)
           idx2 == IF overflow THEN 0 ELSE idx1 + 1
           cue == ~overflow /\ IsCue(buf2, idx2)
       IN IF key = "esc"
          THEN /\ pc' = "exit"
               /\ out' = [NoOut("rx") EXCEPT !.arg = <<c, gap, key>>]
               /\ last4' = LastFour(Append(last4, c))
               /\ UNCHANGED <<kwl, our_cnt, _terminate, buf, idx>>
          ELSE /\ (gap \/ idx < MaxRun \/ idx >= BufSize - MaxRun)
               /\ (cue /\ kwl.opt_do_loop => our_cnt < MaxTurns)
               /\ \E fr \in {IF gap THEN GotFrame(k1, buf, idx, g)
                             ELSE [kwl |-> k1, log |-> <<>>, pakets |-> 0]} :
                  \E tr \in {IF cue THEN OurTurn(fr.kwl, our_cnt + 1)
                               ELSE Quiet(fr.kwl)} :
                    /\ kwl' = tr.kwl
                    /\ our_cnt' = IF cue THEN our_cnt + 1 ELSE our_cnt
                    /\ _terminate' = (_terminate \/ tr.term)
                    /\ buf' = buf2
                    /\ idx' = idx2
                    /\ pc' = IF tr.term THEN "exit" ELSE "loop"
                    /\ last4' = LastFour(Append(last4, c))
                    /\ out' = [op |-> "rx", arg |-> <<c, gap, key>>, sent |-> tr.sent,
                               log |-> fr.log, pakets |-> fr.pakets,
                               turns |-> IF cue THEN 1 ELSE 0]
  /\ UNCHANGED <<_interactive, argv>>

RxByte == RxStep(RxBytes, BOOLEAN)

\* the loop as entered for the command line -p 39
InitRx ==
  /\ kwl = ScanOption(KwlInit, "p", <<51, 57>>).kwl
  /\ our_cnt = 0
  /\ _terminate = FALSE
  /\ _interactive = FALSE
  /\ buf = <<>>
  /\ idx = 0
  /\ pc = "loop"
  /\ argv = <<>>
  /\ last4 = <<>>
  /\ out = NoOut("start")

NextRx == RxByte \/ Finish

SpecRx == InitRx /\ [][NextRx]_vars

\* C3 (as amended): our_turn is called in exactly those iterations that
\* store the fourth byte of a buffer (the bytes since the last idle-gap
\* boundary or overflow reset) whose four bytes are 13 00 00 14, and once.
C3_CueAtBufferStart ==
  out.op = "rx" /\ out.arg[3] # "esc"
    => out.turns = (IF idx = 4 /\ SubSeq(buf, 1, 4) = CuePing THEN 1 ELSE 0)

\* the cue started a buffer, our_turn ran and sent a command
C3_Witness ==
  /\ out.op = "rx" /\ out.turns = 1 /\ idx = 4 /\ last4 = CuePing
  /\ our_cnt = 3 /\ Len(out.sent) = 1

\* C3 as stated: our_turn is called exactly when the most recent four bytes
\* received are 13 00 00 14, wherever they fall in the byte stream.
C3_CueAnywhere ==
  out.op = "rx" /\ out.arg[3] # "esc" => (out.turns = 1 <=> last4 = CuePing)

----------------------------------------------------------------------------
(* Encoder against decoder (specification SpecCodec): a frame built by a   *)
(* send_* helper is handed to got_frame as it was sent, with one byte      *)
(* changed, or followed by a short remainder; buffers of fewer than four   *)
(* bytes are handed to got_frame as well.                                  *)

\* variable ids and values the encoder is called with
EncVars == {Var_11_party_time, Var_1e_bypass1_temp, Var_35_fan_level}
EncVals ==
  [get |-> {0}, set8 |-> {0, 39, 255}, set16 |-> {39, 280, 43521},
   set32 |-> {39, 327681, 50331650}]

Encoded(kind, i, val) ==
  CASE kind = "get" -> SendGetVar(i)
    [] kind = "set8" -> SendSetVar8(i, val)
    [] kind = "set16" -> SendSetVar16(i, val)
    [] kind = "set32" -> SendSetVar32(i, val)

\* bytes of the short buffers
ShortBytes == {19, 0, 1, 20}
ShortBuffers ==
  {<<>>} \cup UNION {[1..n -> ShortBytes] : n \in 1..3}

Encode ==
  /\ pc = "enc"
  /\ \E kind \in DOMAIN EncVals : \E i \in EncVars, val \in EncVals[kind] :
       out' = [NoOut("encode") EXCEPT
                 !.arg = [kind |-> kind, idx |-> i, val |-> val],
                 !.sent = Encoded(kind, i, val)]
  /\ pc' = "wire"
  /\ UNCHANGED <<kwl, our_cnt, _terminate, _interactive, buf, idx, argv, last4>>

\* the buffer holds the frame as sent
Loopback ==
  /\ pc = "wire"
  /\ buf' = out.sent[1]
  /\ idx' = Len(out.sent[1])
  /\ out' = [out EXCEPT !.op = "loopback"]
  /\ pc' = "rx"
  /\ UNCHANGED <<kwl, our_cnt, _terminate, _interactive, argv, last4>>

\* the buffer holds the frame with one byte changed
Corrupt ==
  /\ pc = "wire"
  /\ \E pos \in 1..Len(out.sent[1]) : \E v \in Byte \ {out.sent[1][pos]} :
       /\ buf' = [out.sent[1] EXCEPT ![pos] = v]
       /\ out' = [out EXCEPT !.op = "corrupt",
                             !.arg = [kind |-> out.arg.kind, idx |-> out.arg.idx,
                                      val |-> out.arg.val, pos |-> pos]]
  /\ idx' = Len(out.sent[1])
  /\ pc' = "rx"
  /\ UNCHANGED <<kwl, our_cnt, _terminate, _interactive, argv, last4>>

\* the buffer holds the frame followed by fewer than four more bytes
Packed ==
  /\ pc = "wire"
  /\ \E t \in ShortBuffers \ {<<>>} :
       /\ buf' = out.sent[1] \o t
       /\ idx' = Len(out.sent[1]) + Len(t)
  /\ out' = [out EXCEPT !.op = "packed"]
  /\ pc' = "rx"
  /\ UNCHANGED <<kwl, our_cnt, _terminate, _interactive, argv, last4>>

\* the buffer holds fewer than four bytes
Short ==
  /\ pc = "enc"
  /\ \E b \in ShortBuffers :
       /\ buf' = b
       /\ idx' = Len(b)
  /\ out' = NoOut("short")
  /\ pc' = "rx"
  /\ UNCHANGED <<kwl, our_cnt, _terminate, _interactive, argv, last4>>

\* a frame that would change the snapshot if it were decoded
BypassStatus205 == StatusFrame16(Var_1e_bypass1_temp, 205)

\* the buffer holds the frame with one byte raised by one, followed by a
\* valid status frame
Garbled ==
  /\ pc = "wire"
  /\ \E pos \in 1..Len(out.sent[1]) :
       /\ buf' = [out.sent[1] EXCEPT ![pos] = U8(@ + 1)] \o BypassStatus205
       /\ out' = [out EXCEPT !.op = "garbled",
                             !.arg = [kind |-> out.arg.kind, idx |-> out.arg.idx,
                                      val |-> out.arg.val, pos |-> pos]]
  /\ idx' = Len(out.sent[1]) + Len(BypassStatus205)
  /\ pc' = "rx"
  /\ UNCHANGED <<kwl, our_cnt, _terminate, _interactive, argv, last4>>

\* after a buffer that was given up: the next buffer, a valid status frame,
\* is handed to got_frame
AfterGarbled ==
  /\ pc = "decoded"
  /\ out.op = "garbled"
  /\ out.pakets = 0
  /\ buf' = BypassStatus205
  /\ idx' = Len(BypassStatus205)
  /\ LET r == GotFrame(kwl, BypassStatus205, Len(BypassStatus205), 0) IN
     /\ kwl' = r.kwl
     /\ out' = [out EXCEPT !.op = "next", !.log = r.log, !.pakets = r.pakets]
  /\ UNCHANGED <<our_cnt, _terminate, _interactive, pc, argv, last4>>

\* got_frame on the buffer
Decode ==
  /\ pc = "rx"
  /\ \E g \in Indeterminate :
       \E r \in {GotFrame(kwl, buf, idx, g)} :
       /\ kwl' = r.kwl
       /\ out' = [out EXCEPT !.log = r.log, !.pakets = r.pakets]
  /\ pc' = "decoded"
  /\ UNCHANGED <<our_cnt, _terminate, _interactive, buf, idx, argv, last4>>

\* the object as constructed, or after a first buffer that was not a frame
InitCodec ==
  /\ kwl \in {KwlInit, GotFrame(KwlInit, <<0, 0, 0, 0>>, 4, 0).kwl}
  /\ our_cnt = 0
  /\ _terminate = FALSE
  /\ _interactive = FALSE
  /\ buf = <<>>
  /\ idx = 0
  /\ pc = "enc"
  /\ argv = <<>>
  /\ last4 = <<>>
  /\ out = NoOut("init")

NextCodec ==
  Encode \/ Loopback \/ Corrupt \/ Packed \/ Short \/ Garbled \/ Decode
    \/ AfterGarbled

SpecCodec == InitCodec /\ [][NextCodec]_vars

\* the paket new_paket makes of the buffer
Received == NewPaket(buf, idx, 0)

\* C4: decoding a frame as the encoder sent it yields exactly one valid
\* frame, of the size sent, with address 13, the kind (0 read, 1 write), the
\* variable id and the value bytes the encoder was called with.
C4_RoundTrip ==
  pc = "decoded" /\ out.op = "loopback" =>
    /\ out.pakets = 1
    /\ Len(out.log) = 1 /\ out.log[1].off = 0
    /\ out.log[1].size = Len(out.sent[1])
    /\ out.log[1].ev \notin {"ignoring", "unknown", "other ping"}
    /\ Received._is_valid /\ Received._size = Len(out.sent[1])
    /\ Rd(Received, 0) = 19
    /\ Rd(Received, 1) = (IF out.arg.kind = "get" THEN 0 ELSE 1)
    /\ Rd(Received, 3) = out.arg.idx
    /\ out.arg.kind = "set8" => PaketU8(Received, 0) = out.arg.val
    /\ out.arg.kind = "set16" => PaketU16(Received, 0) = out.arg.val
    /\ out.arg.kind = "set32" =>
         PaketU32(Received, 0) = <<Lo16(out.arg.val), Hi16(out.arg.val)>>

\* a 32-bit write with bytes in both halves was decoded
C4_Witness ==
  /\ pc = "decoded" /\ out.op = "loopback" /\ out.pakets = 1
  /\ out.arg.kind = "set32" /\ out.arg.val = 50331650
  /\ Len(buf) = 9

\* the byte changed is the length byte and its new value is lower
LengthLowered ==
  out.arg.pos = 3 /\ buf[3] < out.sent[1][3]

\* C5 (as amended): a frame of the encoder with one byte changed, other than
\* the length byte lowered, is reported invalid by the decoder: no frame is
\* counted and the snapshot stays as it was.
C5_SingleByteChange ==
  pc = "decoded" /\ out.op = "corrupt" /\ ~LengthLowered =>
    /\ out.pakets = 0
    /\ ~Received._is_valid
    /\ \A j \in 1..Len(out.log) : out.log[j].ev = "ignoring"
    /\ kwl \in {KwlInit, GotFrame(KwlInit, <<0, 0, 0, 0>>, 4, 0).kwl}

\* a frame whose length byte was raised was reported invalid
C5_Witness ==
  /\ pc = "decoded" /\ out.op = "corrupt" /\ out.pakets = 0
  /\ out.arg.pos = 3 /\ buf[3] > out.sent[1][3]
  /\ out.log # <<>>

\* C5 as stated: a frame of the encoder with any one byte changed, the
\* length byte included, is reported invalid.
C5_AnyByteChange ==
  pc = "decoded" /\ out.op = "corrupt" => out.pakets = 0

\* C6: got_frame on fewer than four bytes, whether the whole buffer or what
\* remains after a frame, logs nothing, counts nothing and changes nothing.
C6_ShortIsIncomplete ==
  [][/\ pc = "rx" /\ idx < 4 =>
          kwl' = kwl /\ out'.log = <<>> /\ out'.pakets = 0
     /\ pc = "rx" /\ out.op = "packed" =>
          LET n == Len(out.sent[1])
              r == GotFrame(kwl, SubSeq(buf, 1, n), n, 0)
          IN kwl' = r.kwl /\ out'.log = r.log /\ out'.pakets = 1]_vars

\* three bytes were handed to got_frame while the first frame was awaited
C6_Witness ==
  /\ pc = "decoded" /\ out.op = "short" /\ idx = 3
  /\ kwl._first_frame /\ out.log = <<>>

----------------------------------------------------------------------------
(* Properties of the command sequencer, continued *)

NoIntent(k) == \A i \in 1..19 : ~PendingIntents(k)[i]

\* C11: our_turn sets _terminate exactly on a turn after bootstrap with no
\* intent pending and loop mode off; that turn emits nothing and changes
\* nothing else.
C11_Termination ==
  [][TurnStep =>
       /\ _terminate' <=> (AfterBootstrap /\ NoIntent(kwl) /\ ~kwl.opt_do_loop)
       /\ _terminate' => out'.sent = <<>> /\ kwl' = kwl]_vars

\* the run of --get-all terminated once its last read had been sent
C11_Witness ==
  /\ out.op = "turn" /\ _terminate /\ out.sent = <<>> /\ our_cnt > 10
  /\ NoIntent(kwl) /\ ~kwl.opt_do_loop

----------------------------------------------------------------------------
(* Interactive mode with broadcasts of several fan levels (specification   *)
(* SpecFan): the loop as entered for the command line -l, keys, turns,     *)
(* and bus buffers that carry the fan level and the bypass reading.        *)

\* fan levels the broadcasts carry
FanLevels == {0, 1, 4, 5}

FanBuffers ==
  {Broadcast(l, a) : l \in FanLevels, a \in {0, 1}}
  \cup {StatusFrame16(Var_1e_bypass1_temp, 195)}

FanFrame == FrameOf(FanBuffers)

InitLoop ==
  /\ kwl = ScanOption(KwlInit, "l", <<>>).kwl
  /\ our_cnt = 0
  /\ _terminate = FALSE
  /\ _interactive = ScanOption(KwlInit, "l", <<>>).interactive
  /\ buf = <<>>
  /\ idx = 0
  /\ pc = "loop"
  /\ argv = <<>>
  /\ last4 = <<>>
  /\ out = NoOut("start")

NextFan == Turn \/ Key \/ FanFrame \/ Finish

SpecFan == InitLoop /\ [][NextFan]_vars

\* an up/down request is pending
StepPending(k) == k.opt_set_fan \in {FanDown, FanUp}

\* the known fan level allows the pending step
StepInRange(k) ==
  IF k.opt_set_fan = FanUp THEN k._fan_level \in 1..3 ELSE k._fan_level \in 2..4

\* the turn about to be granted serves the bypass intent / the fan intent
ServesBypass == AfterBootstrap /\ kwl.opt_set_time = 0

ServesFan == ServesBypass /\ kwl.opt_set_bypass = 0

\* C12 (as amended): a bypass toggle with the reading unknown and a fan
\* up/down with the level unknown stay pending over every turn and every
\* received buffer; the turn that serves the toggle with the reading known
\* writes the bypass, and the turn that serves the step with the level known
\* writes the fan level if the level is in range for the step.
C12_DeferredNotDropped ==
  [][/\ (TurnStep /\ kwl.opt_set_bypass = UnknownBypass /\ kwl._bypass = UnknownBypass
           => kwl'.opt_set_bypass = UnknownBypass)
     /\ (TurnStep /\ kwl.opt_set_bypass = UnknownBypass /\ kwl._bypass = UnknownBypass
           /\ ServesBypass
           => kwl' = kwl /\ out'.sent = <<>>)
     /\ (TurnStep /\ StepPending(kwl) /\ kwl._fan_level = -1 /\ ServesFan
           => kwl' = kwl /\ out'.sent = <<>>)
     /\ (TurnStep /\ StepPending(kwl) /\ kwl._fan_level = -1
           => kwl'.opt_set_fan = kwl.opt_set_fan)
     /\ (out'.op = "frame"
           => /\ kwl'.opt_set_bypass = kwl.opt_set_bypass
              /\ kwl'.opt_set_fan = kwl.opt_set_fan)
     /\ (TurnStep /\ ServesBypass /\ kwl.opt_set_bypass = UnknownBypass
           /\ kwl._bypass # UnknownBypass
           => /\ Len(out'.sent) = 1
              /\ IsWriteOf(out'.sent[1], Var_1e_bypass1_temp)
              /\ kwl'.opt_set_bypass = 0)
     /\ (TurnStep /\ ServesFan /\ StepPending(kwl) /\ kwl._fan_level # -1
           /\ StepInRange(kwl)
           => /\ Len(out'.sent) = 1
              /\ IsWriteOf(out'.sent[1], Var_35_fan_level))]_vars

\* a turn after bootstrap deferred a bypass toggle, a fan step behind it
C12_Witness ==
  /\ out.op = "turn" /\ our_cnt > 3 /\ out.sent = <<>>
  /\ kwl.opt_set_bypass = UnknownBypass /\ kwl._bypass = UnknownBypass
  /\ StepPending(kwl)

\* C12 as stated: the turn that serves a deferred fan step with the level
\* known writes the fan level.
C12_StepWrittenOnceKnown ==
  [][TurnStep /\ ServesFan /\ StepPending(kwl) /\ kwl._fan_level # -1
       => /\ Len(out'.sent) = 1
          /\ IsWriteOf(out'.sent[1], Var_35_fan_level)]_vars

\* C17: a fan step served with the level known and out of range for it
\* (down outside 2..4, up outside 1..3) emits nothing, clears the fan intent
\* and changes nothing else.
C17_OutOfRangeDropped ==
  [][TurnStep /\ ServesFan /\ StepPending(kwl) /\ kwl._fan_level # -1
       /\ ~StepInRange(kwl)
       => out'.sent = <<>> /\ kwl' = [kwl EXCEPT !.opt_set_fan = 0]]_vars

\* an "up" at level 4 was dropped: level and auto flag are still cached
C17_Witness ==
  /\ out.op = "turn" /\ out.sent = <<>> /\ our_cnt > 2
  /\ kwl.opt_set_fan = 0 /\ kwl._fan_level = 4 /\ kwl._fan_auto = 1
  /\ kwl.opt_set_bypass = 0 /\ kwl.opt_get_bypass = 1

\* C18: every numeric fan-level write {level, bb} of our_turn carries a
\* level byte in 0..3.
C18_LevelByteRange ==
  out.op = "turn" =>
    \A f \in Frames(out.sent) :
      IsWriteOf(f, Var_35_fan_level) /\ f[6] = 187 => f[5] \in 0..3

WriteFrame8(v, b) == Checksummed(<<19, 1, 2, v, b>>)

\* the turn about to be granted serves the party intent / the quiet intent
ServesParty == ServesFan /\ kwl.opt_set_fan = 0

ServesQuiet == ServesParty /\ kwl.opt_set_party = 0

\* C13: the turn that serves a pending party (quiet) duration writes it to
\* 0x11 (0x56) and re-arms the intent as "enable", which the turn that
\* serves it next writes as 0x0f (0x55) = 1; a pending literal 0 or 1 is
\* written as disable or enable in one turn; both clear the intent.
C13_TwoStepEnable ==
  [][/\ (TurnStep /\ ServesParty /\ kwl.opt_set_party # 0 =>
           IF kwl.opt_set_party = TwoStepDisable
           THEN out'.sent = <<WriteFrame8(15, 0)>> /\ kwl'.opt_set_party = 0
           ELSE IF kwl.opt_set_party = TwoStepEnable
           THEN out'.sent = <<WriteFrame8(15, 1)>> /\ kwl'.opt_set_party = 0
           ELSE /\ out'.sent = <<WriteFrame16(17, kwl.opt_set_party % 256,
                                              kwl.opt_set_party \div 256)>>
                /\ kwl'.opt_set_party = TwoStepEnable)
     /\ (TurnStep /\ ServesQuiet /\ kwl.opt_set_quiet # 0 =>
           IF kwl.opt_set_quiet = TwoStepDisable
           THEN out'.sent = <<WriteFrame8(85, 0)>> /\ kwl'.opt_set_quiet = 0
           ELSE IF kwl.opt_set_quiet = TwoStepEnable
           THEN out'.sent = <<WriteFrame8(85, 1)>> /\ kwl'.opt_set_quiet = 0
           ELSE /\ out'.sent = <<WriteFrame16(86, kwl.opt_set_quiet % 256,
                                              kwl.opt_set_quiet \div 256)>>
                /\ kwl'.opt_set_quiet = TwoStepEnable)]_vars

\* the quiet duration 30 was written and the enable write is armed
C13_Witness ==
  /\ out.op = "turn" /\ out.sent = <<WriteFrame16(86, 30, 0)>>
  /\ kwl.opt_set_quiet = TwoStepEnable /\ kwl.opt_set_party = 0

\* the fan intent is an explicit manual level with the disable-auto flag
ManualWithFlag(k) ==
  /\ k.opt_set_fan \notin {FanDown, FanUp, FanAuto}
  /\ BitAnd(k.opt_set_fan, FanDisableAutoBit) # 0

\* the fan intent is a bare level
ManualLevel(k) ==
  /\ k.opt_set_fan \notin {0, FanDown, FanUp, FanAuto}
  /\ BitAnd(k.opt_set_fan, FanDisableAutoBit) = 0

\* C14: the turn that serves a fan intent carrying the disable-auto flag
\* writes {aa 00} and clears only the flag; the turn that serves the level
\* left over writes {level bb} and clears the intent.
C14_ManualFanSet ==
  [][/\ (TurnStep /\ ServesFan /\ ManualWithFlag(kwl)
           => /\ out'.sent = <<WriteFrame16(53, 170, 0)>>
              /\ kwl' = [kwl EXCEPT !.opt_set_fan = @ - FanDisableAutoBit])
     /\ (TurnStep /\ ServesFan /\ ManualLevel(kwl)
           => /\ out'.sent = <<WriteFrame16(53, kwl.opt_set_fan, 187)>>
              /\ kwl' = [kwl EXCEPT !.opt_set_fan = 0])]_vars

\* -f m:1 in loop mode: the flag was cleared and level 1 is left to write
C14_Witness ==
  /\ out.op = "turn" /\ out.sent = <<WriteFrame16(53, 170, 0)>>
  /\ kwl.opt_set_fan = 1 /\ kwl._status_buf[10] = 0 /\ kwl.opt_do_loop

\* the turn about to be granted serves the voltage reads
ServesVoltageRead ==
  /\ ServesQuiet /\ kwl.opt_set_quiet = 0 /\ kwl.opt_set_voltage = 0
  /\ kwl.opt_get_bypass = 0 /\ ~kwl.opt_get_hours_on

\* C15 (as amended): the four turns that serve a pending voltage read, with
\* the counter opt_get_voltage at 4, 3, 2, 1, read the variables 0x16, 0x17,
\* 0x18, 0x19: level 1 first, level 4 last.
C15_VoltageReadsAscending ==
  [][TurnStep /\ ServesVoltageRead /\ kwl.opt_get_voltage # 0
       => /\ kwl.opt_get_voltage \in 1..4
          /\ out'.sent = <<ReadFrame(Var_16_fan_1_voltage + 4 - kwl.opt_get_voltage)>>
          /\ kwl' = [kwl EXCEPT !.opt_get_voltage = @ - 1]]_vars

\* the first of the four reads was that of level 1 (variable 0x16)
C15_Witness ==
  /\ out.op = "turn" /\ out.sent = <<ReadFrame(22)>> /\ kwl.opt_get_voltage = 3

\* C15 as stated: the four reads are in descending level order, level 4
\* (variable 0x19) first and level 1 (variable 0x16) last.
C15_VoltageReadsDescending ==
  [][TurnStep /\ ServesVoltageRead /\ kwl.opt_get_voltage # 0
       => out'.sent = <<ReadFrame(Var_16_fan_1_voltage - 1 + kwl.opt_get_voltage)>>]_vars

----------------------------------------------------------------------------
(* Loop mode with party and quiet status on the bus (specification         *)
(* SpecPoll): the loop as entered for the command line -l, no key pressed, *)
(* turns, and status frames with the remaining party and quiet minutes.    *)

PollBuffers ==
  {StatusFrame16(Var_10_party_curr_time, v) : v \in {0, 39}}
  \cup {StatusFrame16(Var_54_quiet_curr_time, v) : v \in {0, 30}}

PollFrame == FrameOf(PollBuffers)

NextPoll == Turn \/ PollFrame

SpecPoll == InitLoop /\ [][NextPoll]_vars

\* the turn about to be granted is an 8th turn with nothing pending
IdleEighthTurn ==
  /\ TurnStep /\ AfterBootstrap /\ NoIntent(kwl) /\ kwl.opt_do_loop
  /\ (our_cnt + 1) % 8 = 2

\* C16: in loop mode with nothing pending, every turn with turn counter
\* mod 8 = 2 requests the remaining time of party mode (0x10) if it is
\* active and that of quiet mode (0x54) if it is active, also when both are.
C16_BothPolled ==
  [][IdleEighthTurn =>
       /\ (kwl._party # 0 => ReadFrame(16) \in Frames(out'.sent))
       /\ (kwl._quiet # 0 => ReadFrame(84) \in Frames(out'.sent))]_vars

----------------------------------------------------------------------------
(* Runs of the command line -t HH:MM (specification SpecTime) *)

\* "0:0", "00:00", "0:1", "1:0", "12:30", "23:59", "24:0", "12:60"
TimeArgs ==
  {<<48, 58, 48>>, <<48, 48, 58, 48, 48>>, <<48, 58, 49>>, <<49, 58, 48>>,
   <<49, 50, 58, 51, 48>>, <<50, 51, 58, 53, 57>>, <<50, 52, 58, 48>>,
   <<49, 50, 58, 54, 48>>}

InitTime ==
  /\ kwl = KwlInit
  /\ our_cnt = 0
  /\ _terminate = FALSE
  /\ _interactive = FALSE
  /\ buf = <<>>
  /\ idx = 0
  /\ pc = "scan"
  /\ argv \in {<<Opt("t", a)>> : a \in TimeArgs}
  /\ last4 = <<>>
  /\ out = NoOut("init")

NextTime == Scan \/ StartLoop \/ Turn \/ Frame \/ Finish

SpecTime == InitTime /\ [][NextTime]_vars

\* C19: an accepted set-time value is consumed by exactly one write of
\* variable 0x08: the first turn after bootstrap sends that write (and the
\* turn after it finds nothing pending and terminates the run).
C19_SetTimeWritten ==
  /\ (out.op = "turn" /\ our_cnt = 3
        => /\ Len(out.sent) = 1 /\ IsWriteOf(out.sent[1], Var_08_time_hour_min)
           /\ kwl.opt_set_time = 0 /\ ~_terminate)
  /\ (out.op = "turn" /\ our_cnt = 4 => out.sent = <<>> /\ _terminate)

----------------------------------------------------------------------------
(* A buffer whose first frame fails its checksum (specification SpecCodec, *)
(* continued)                                                              *)

\* C20: when the first frame of a buffer of at least four bytes fails its
\* checksum, got_frame counts nothing, decodes none of the later bytes (one
\* "ignoring" event at offset 0 at most) and changes no member but
\* _first_frame; the next buffer is decoded as usual.
C20_StopsAtInvalid ==
  /\ [][pc = "rx" /\ idx >= 4 /\ ~Received._is_valid
          => /\ kwl' = [kwl EXCEPT !._first_frame = FALSE]
             /\ out'.pakets = 0
             /\ out'.log = IF kwl._first_frame THEN <<>>
                           ELSE <<[ev |-> "ignoring", off |-> 0,
                                   size |-> Received._size]>>]_vars
  /\ [](out.op = "next" =>
          /\ out.pakets = 1 /\ kwl._bypass = 205
          /\ out.log = <<[ev |-> "bypass1", off |-> 0, size |-> 7]>>)

\* a garbled frame was followed in its buffer by a bypass status, which was
\* not decoded
C20_Witness ==
  /\ pc = "decoded" /\ out.op = "garbled" /\ out.pakets = 0
  /\ Len(out.log) = 1 /\ kwl._bypass = UnknownBypass
  /\ SubSeq(buf, idx - 6, idx) = BypassStatus205

----------------------------------------------------------------------------
(* The decoder on bus traffic (specification SpecBus): the bytes of a      *)
(* buffer arrive, an idle gap follows and main hands the buffer to         *)
(* got_frame.  A buffer is a train of frames packed back to back, or one   *)
(* frame cut short.  The bytes of main's array behind the buffer are those *)
(* of earlier buffers or were never written: a read of them yields an      *)
(* indeterminate byte.                                                     *)

\* frames of the bus: a frame of two address bytes ff ff and no payload, a
\* ping of a device that is not a remote control, the master's request for
\* the hours-on counter, the remaining party and quiet times
ShortBroadcast == Checksummed(<<255, 255, 0>>)
ForeignPing == Checksummed(<<49, 0, 0>>)
HoursOnRequest == SendGetVar(Var_15_hours_on)[1]
PartyStatus39 == StatusFrame16(Var_10_party_curr_time, 39)
QuietStatus30 == StatusFrame16(Var_54_quiet_curr_time, 30)

BusFrames == {BypassStatus205, Broadcast(3, 1), ShortBroadcast, ForeignPing}

\* a buffer: the frames it is made of and the number of bytes missing at
\* its end
Trains ==
  {<<f>> : f \in BusFrames \cup {HoursOnRequest, SensorsFrame, QuietStatus30}}
  \cup {<<f, h>> : f \in BusFrames, h \in BusFrames}
  \cup {<<BypassStatus205, PartyStatus39, Broadcast(5, 0)>>,
        <<PartyStatus39, ForeignPing, BypassStatus205>>}

BusInputs ==
  {[frames |-> fs, cut |-> 0] : fs \in Trains}
  \cup {[frames |-> <<BypassStatus205>>, cut |-> c] : c \in {1, 2, 3}}
  \cup {[frames |-> <<HoursOnRequest>>, cut |-> 1]}
  \cup {[frames |-> <<Broadcast(3, 1)>>, cut |-> c] : c \in {1, 17}}

RECURSIVE Concat(_)
Concat(fs) == IF fs = <<>> THEN <<>> ELSE Head(fs) \o Concat(Tail(fs))

BufferOf(in) ==
  SubSeq(Concat(in.frames), 1, Len(Concat(in.frames)) - in.cut)

\* the bytes of a buffer arrive and an idle gap follows: got_frame(buf, idx);
\* g is an input only when a read reaches behind the buffer
Inbound ==
  /\ pc = "loop"
  /\ \E in \in BusInputs, g \in Indeterminate :
       \E b \in {BufferOf(in)} :
         \E r \in {GotFrame(kwl, b, Len(b), g)} :
           /\ (g = 0 \/ r # GotFrame(kwl, b, Len(b), 0))
           /\ buf' = b
           /\ idx' = Len(b)
           /\ kwl' = r.kwl
           /\ out' = [NoOut("inbound") EXCEPT
                        !.arg = [frames |-> in.frames, cut |-> in.cut, g |-> g],
                        !.log = r.log, !.pakets = r.pakets]
  /\ UNCHANGED <<our_cnt, _terminate, _interactive, pc, argv, last4>>

NextBus == Inbound

SpecBus == InitLoop /\ [][NextBus]_vars

----------------------------------------------------------------------------
(* Properties of the decoder on packed and cut buffers (specification      *)
(* SpecBus)                                                                *)

\* the frame's address is one got_frame goes on after: ff ff or 10..13
GoesOn(f) == (f[1] = 255 /\ f[2] = 255) \/ (f[1] >= 16 /\ f[1] <= 19)

\* the number of frames of the train fs that got_frame reaches: all of
\* them, or those up to the first one with another address
RECURSIVE Reached(_)
Reached(fs) ==
  IF fs = <<>> THEN 0
  ELSE IF GoesOn(Head(fs)) THEN 1 + Reached(Tail(fs))
  ELSE 1

\* the offset of the i-th frame of the train
OffsetOf(fs, i) == Len(Concat(SubSeq(fs, 1, i - 1)))

\* C21 (as amended): of a buffer made of valid frames packed back to back,
\* one got_frame call decodes in order every frame up to and including the
\* first whose address is neither ff ff nor 10..13, each at the offset where
\* the one before it ended; the frames behind such a frame are not decoded.
C21_DecodesUntilForeign ==
  out.op = "inbound" /\ out.arg.cut = 0 =>
    LET fs == out.arg.frames
        n == Reached(fs)
    IN /\ out.pakets = n
       /\ Len(out.log) = n
       /\ \A i \in 1..n :
            /\ out.log[i].off = OffsetOf(fs, i)
            /\ out.log[i].size = Len(fs[i])
            /\ out.log[i].ev # "ignoring"
       /\ (fs = <<BypassStatus205, PartyStatus39, Broadcast(5, 0)>>
             => kwl._bypass = 205 /\ kwl._party = 39 /\ kwl._fan_level = 5)

\* three frames of three lengths were decoded in one call, each of them
\* updating the snapshot
C21_Witness ==
  /\ out.op = "inbound"
  /\ out.arg.frames = <<BypassStatus205, PartyStatus39, Broadcast(5, 0)>>
  /\ out.pakets = 3
  /\ out.log[3].off = 14
  /\ kwl._bypass = 205 /\ kwl._party = 39 /\ kwl._fan_level = 5

\* C21 as stated: every frame of the buffer is decoded, whatever the
\* address of each frame.
C21_DecodesEveryFrame ==
  out.op = "inbound" /\ out.arg.cut = 0 =>
    /\ out.pakets = Len(out.arg.frames)
    /\ Len(out.log) = Len(out.arg.frames)

\* C22: a buffer of at least four bytes that holds fewer bytes than the
\* 4 + declaredLength of its header is never accepted as a valid frame:
\* got_frame counts no paket for it and leaves the snapshot as it was.
C22_CutIsMalformed ==
  [][pc = "loop" /\ out'.op = "inbound" /\ out'.arg.cut > 0
       /\ idx' >= 4 /\ idx' < 4 + buf'[3]
       => /\ out'.pakets = 0
          /\ ~NewPaket(buf', idx', out'.arg.g)._is_valid
          /\ kwl'._bypass = kwl._bypass]_vars

\* the events of validated pakets
ValidEvents == {i \in 1..Len(out.log) : out.log[i].ev # "ignoring"}

\* C23 (as amended): a validated frame occupies 4 + declaredLength bytes
\* (three header bytes, declaredLength bytes of variable id and payload, the
\* checksum), or the whole rest of the buffer when that is shorter, and the
\* next frame is decoded from the byte right behind it; every frame reached
\* in a buffer of complete frames is validated.
C23_FrameSize ==
  out.op = "inbound" =>
    /\ (out.arg.cut = 0 => ValidEvents = 1..Reached(out.arg.frames))
    /\ \A i \in ValidEvents :
         LET off == out.log[i].off IN
         /\ out.log[i].size =
              IF idx - off > 4 + buf[off + 3] THEN 4 + buf[off + 3]
              ELSE idx - off
         /\ (out.arg.cut = 0 => out.log[i].size = 4 + buf[off + 3])
         /\ (i > 1 => off = out.log[i - 1].off + out.log[i - 1].size)
         /\ (i = 1 => off = 0)

\* a 7-byte frame of declared length 3 was followed by a 27-byte frame of
\* declared length 23, decoded from offset 7
C23_Witness ==
  /\ out.op = "inbound"
  /\ out.arg.frames = <<BypassStatus205, Broadcast(3, 1)>>
  /\ out.pakets = 2
  /\ buf[3] = 3 /\ out.log[1].size = 7
  /\ out.log[2].off = 7 /\ buf[10] = 23 /\ out.log[2].size = StatusSize
  /\ idx = 7 + StatusSize

\* C23 as stated: every validated frame occupies 4 + declaredLength + 1
\* bytes and decoding advances by that many bytes.
C23_FrameSizePlusOne ==
  out.op = "inbound" /\ out.arg.cut = 0 =>
    \A i \in ValidEvents :
      /\ out.log[i].size = 4 + buf[out.log[i].off + 3] + 1
      /\ (i > 1 => out.log[i].off = out.log[i - 1].off + out.log[i - 1].size)

----------------------------------------------------------------------------
(* The receive array running full (specification SpecFull): the loop as    *)
(* entered for the command line -p 39, after two turns were taken and the  *)
(* bus has then delivered a bypass status and zero bytes with no idle gap  *)
(* up to the last byte but one of the array.                               *)

\* the object after the first two our_turn calls
AfterTwoTurns(k) == OurTurn(OurTurn(k, 1).kwl, 2).kwl

InitFull ==
  /\ kwl = AfterTwoTurns(ScanOption(KwlInit, "p", <<51, 57>>).kwl)
  /\ our_cnt = 2
  /\ _terminate = FALSE
  /\ _interactive = FALSE
  /\ buf = BypassStatus205 \o [i \in 1..(BufSize - 1 - Len(BypassStatus205)) |-> 0]
  /\ idx = BufSize - 1
  /\ pc = "loop"
  /\ argv = <<>>
  /\ last4 = <<0, 0, 0, 0>>
  /\ out = [NoOut("rx") EXCEPT !.arg = <<0, FALSE, "none">>]

\* a byte right behind the one before it
FullByte == RxStep(RxBytes, {FALSE})

\* a zero byte after an idle gap
FullGap == RxStep({0}, {TRUE})

NextFull == FullByte \/ FullGap

SpecFull == InitFull /\ [][NextFull]_vars

\* the array is full and the next byte arrives with no idle gap before it
Overflows == pc = "loop" /\ idx >= BufSize /\ out'.op = "rx" /\ ~out'.arg[2]

\* C24: a byte that arrives with no idle gap when the array holds 128 bytes
\* resets the buffer to empty; got_frame is not called (no paket counted, no
\* event, snapshot and intents as before), no turn is taken and the loop
\* goes on; of the bytes stored afterwards, four bytes 13 00 00 14 at the
\* start of the buffer are the cue again and are decoded as one ping at the
\* next idle gap, and the array never holds more than 128 bytes.
C24_OverflowResets ==
  /\ [][Overflows
          => /\ idx' = 0 /\ buf' = buf
             /\ kwl' = kwl
             /\ out'.pakets = 0 /\ out'.log = <<>>
             /\ out'.turns = 0 /\ out'.sent = <<>>
             /\ pc' = "loop" /\ ~_terminate']_vars
  /\ [](idx <= BufSize /\ Len(buf) <= BufSize)
  /\ [](out.op = "rx" /\ out.arg[3] # "esc" /\ Len(buf) = BufSize
          => out.turns = (IF idx = 4 /\ SubSeq(buf, 1, 4) = CuePing THEN 1 ELSE 0))
  /\ [][pc = "loop" /\ out'.op = "rx" /\ out'.arg[2] /\ Len(buf) = BufSize
          /\ idx = 4 /\ SubSeq(buf, 1, 4) = CuePing
          => /\ out'.pakets = 1
             /\ out'.log = <<[ev |-> "quiet", off |-> 0, size |-> 4]>>]_vars

\* the array ran full and was reset without its bypass status being
\* decoded; the four bytes stored since then were the cue and our_turn sent
\* a command
C24_Witness ==
  /\ out.op = "rx" /\ Len(buf) = BufSize /\ kwl._bypass = UnknownBypass
  /\ idx = 4 /\ SubSeq(buf, 1, 4) = CuePing
  /\ out.turns = 1 /\ Len(out.sent) = 1

----------------------------------------------------------------------------
(* The snapshot under turns, keys and frames (specification SpecSnap):     *)
(* interactive loop mode with broadcasts of an in-range and an             *)
(* out-of-range fan level, a bypass status and a party status on the bus.  *)

SnapBuffers ==
  {Broadcast(3, 1), Broadcast(5, 0), StatusFrame16(Var_1e_bypass1_temp, 195),
   PartyStatus39}

SnapFrame == FrameOf(SnapBuffers)

NextSnap == Turn \/ Key \/ SnapFrame \/ Finish

SpecSnap == InitLoop /\ [][NextSnap]_vars

\* C25: in every state fanLevel is -1 or 0..4 and fanAuto is -1, 0 or 1.
C25_FanFieldsInRange ==
  kwl._fan_level \in -1..4 /\ kwl._fan_auto \in {-1, 0, 1}

\* the members print_paket and our_turn keep of the device's state
Snapshot(k) ==
  [fan |-> <<k._fan_level, k._fan_auto>>, bypass |-> k._bypass,
   party |-> k._party, quiet |-> k._quiet, temp |-> k._temp,
   status |-> k._status_buf]

\* the turn about to be granted writes a fan step
WritesFanStep ==
  ServesFan /\ StepPending(kwl) /\ kwl._fan_level # -1 /\ StepInRange(kwl)

\* C26 (as amended): our_turn leaves bypassTemp, partyMinutes, quietMinutes,
\* the sensor temperatures and the last status broadcast unchanged, and it
\* leaves fanLevel and fanAuto unchanged except on the turn that writes a
\* fan up/down step: that turn sets both to -1.
C26_TurnInvalidatesFanOnly ==
  [][TurnStep
       => Snapshot(kwl') =
            IF WritesFanStep THEN [Snapshot(kwl) EXCEPT !.fan = <<-1, -1>>]
            ELSE Snapshot(kwl)]_vars

\* a turn wrote a fan step and forgot the level and auto flag the last
\* broadcast had reported
C26_Witness ==
  /\ out.op = "turn" /\ Len(out.sent) = 1
  /\ IsWriteOf(out.sent[1], Var_35_fan_level)
  /\ kwl._status_buf[10] = 3 /\ kwl._status_buf[11] = 1
  /\ kwl._fan_level = -1 /\ kwl._fan_auto = -1
  /\ kwl._party = 39 /\ kwl._bypass = 195

\* C26 as stated: granting a turn leaves every snapshot field unchanged.
C26_TurnKeepsSnapshot ==
  [][TurnStep => Snapshot(kwl') = Snapshot(kwl)]_vars

\* C29: fanLevel is -1 exactly when fanAuto is -1, and a turn writes a fan
\* up/down step only with both of them known.
C29_UnknownTogether ==
  /\ [](kwl._fan_level = -1 <=> kwl._fan_auto = -1)
  /\ [][TurnStep /\ out'.sent # <<>> /\ ServesFan /\ StepPending(kwl)
          => /\ kwl._fan_level # -1 /\ kwl._fan_auto \in {0, 1}
             /\ kwl'._fan_level = -1 /\ kwl'._fan_auto = -1]_vars

\* both were set by a broadcast, reset by a fan step and set again by the
\* next broadcast
C29_Witness ==
  /\ out.op = "frame" /\ kwl._fan_level = 5 /\ kwl._fan_auto = 0
  /\ kwl.opt_set_fan = 4 /\ our_cnt > 2

\* a toggle of the bypass is pending and no bypass status was decoded yet
ToggleBlocked(k) ==
  k.opt_set_bypass = UnknownBypass /\ k._bypass = UnknownBypass

\* C30: with a bypass toggle pending, the bypass reading unknown and no
\* set-time intent pending, a turn after bootstrap sends nothing, changes no
\* member of the object and does not end the loop: the read of the bypass
\* temperature armed with the toggle, every other intent and the
\* low-frequency polls wait.
C30_ToggleBlocksTurns ==
  [][TurnStep /\ ServesBypass /\ ToggleBlocked(kwl)
       => /\ out'.sent = <<>>
          /\ kwl' = kwl
          /\ _terminate' = _terminate /\ pc' = pc]_vars

\* the seventh turn, on which the sensors are polled otherwise, sent nothing:
\* the toggle, the bypass read armed with it and a fan request are pending
\* and party mode is known to be active
C30_Witness ==
  /\ out.op = "turn" /\ our_cnt = 7 /\ out.sent = <<>>
  /\ ToggleBlocked(kwl) /\ kwl.opt_get_bypass = 1
  /\ kwl.opt_set_fan = FanAuto /\ kwl._party = 39

\* the paket got_frame makes of the buffer's bytes from offset off on
PaketAt(off) == NewPaket(SubSeq(buf', off + 1, Len(buf')), idx' - off, out'.arg.g)

\* the validated paket is a status of the variable v
CarriesVar(p, v) == p._is_valid /\ Rd(p, 1) = 1 /\ Rd(p, 3) = v

\* the validated paket begins ff ff and reaches over its bytes 9 and 10
IsBroadcast(p) ==
  p._is_valid /\ Rd(p, 0) = 255 /\ Rd(p, 1) = 255 /\ p._size > 10

\* the call decoded a validated status of v / a validated frame beginning
\* ff ff that holds the fan level and the auto flag
DecodedVar(v) ==
  \E i \in 1..Len(out'.log) :
    out'.log[i].ev # "ignoring" /\ CarriesVar(PaketAt(out'.log[i].off), v)

DecodedBroadcast ==
  \E i \in 1..Len(out'.log) :
    out'.log[i].ev # "ignoring" /\ IsBroadcast(PaketAt(out'.log[i].off))

\* C27: the snapshot starts as unknown (fan level and auto flag -1, bypass
\* ffff, sensors 9990, party and quiet 0), and a got_frame call changes a
\* field only if it decoded a validated frame carrying its variable: a
\* status of 1e, 10, 54 or 3a, and for the fan fields a frame beginning
\* ff ff that holds them.
C27_FieldsFromFrames ==
  /\ (out.op = "start" => Snapshot(kwl) = Snapshot(KwlInit))
  /\ [][pc = "loop" /\ out'.op = "inbound"
          => /\ (kwl'._bypass # kwl._bypass => DecodedVar(Var_1e_bypass1_temp))
             /\ (kwl'._party # kwl._party => DecodedVar(Var_10_party_curr_time))
             /\ (kwl'._quiet # kwl._quiet => DecodedVar(Var_54_quiet_curr_time))
             /\ (kwl'._temp # kwl._temp => DecodedVar(Var_3a_sensors_temp))
             /\ (kwl'._fan_level # kwl._fan_level \/ kwl'._fan_auto # kwl._fan_auto
                   => DecodedBroadcast)]_vars

\* the last 27-byte broadcast a got_frame call decoded, as its offset
Statuses == {i \in 1..Len(out'.log) : out'.log[i].ev = "status"}
LastStatus == out'.log[CHOOSE i \in Statuses : \A j \in Statuses : j <= i].off

\* C28: a got_frame call changes fanLevel and fanAuto only by decoding a
\* valid 27-byte frame beginning ff ff, whose bytes 9 and 10 they then hold;
\* a valid ff ff frame of another length leaves them as they were.
C28_FanFromBroadcastOnly ==
  [][pc = "loop" /\ out'.op = "inbound"
       => IF Statuses = {}
          THEN kwl'._fan_level = kwl._fan_level /\ kwl'._fan_auto = kwl._fan_auto
          ELSE /\ kwl'._fan_level = buf'[LastStatus + 10]
               /\ kwl'._fan_auto = (IF buf'[LastStatus + 11] > 0 THEN 1 ELSE 0)]_vars

----------------------------------------------------------------------------
(* Keys between the two turns of a fan step (specification SpecSnap)       *)

\* the intent is a level waiting to be written: the disable-auto write of a
\* two-step flow went out and the set-manual-level arm is next
LevelRemembered(k) ==
  /\ k.opt_set_fan # 0 /\ k.opt_set_fan # FanAuto /\ ~StepPending(k)
  /\ BitAnd(k.opt_set_fan, FanDisableAutoBit) = 0

\* the intent a fan key arms
FanKeyIntent(key) ==
  IF key = "up" THEN FanUp ELSE IF key = "down" THEN FanDown ELSE FanAuto

\* the turn wrote level l with the manual marker bb
WroteLevel(l) == out'.sent = <<WriteFrame16(Var_35_fan_level, l, 187)>>

\* C31: a fan key pressed while a level waits to be written replaces the
\* level by the key's intent and sends nothing; a level is written only by
\* the turn that finds it waiting or by a single-step up/down from a known
\* level in manual mode, so the replaced level is never written, and the
\* turn that serves the key's intent sends what that intent asks for (an
\* up/down waits for the next broadcast).
C31_KeyReplacesLevel ==
  /\ [][pc = "loop" /\ out'.op = "key" /\ out'.arg \in {"up", "down", "a"}
          /\ LevelRemembered(kwl)
          => /\ kwl' = [kwl EXCEPT !.opt_set_fan = FanKeyIntent(out'.arg)]
             /\ out'.sent = <<>>]_vars
  /\ [][TurnStep
          => \A l \in 0..255 :
               WroteLevel(l)
                 => \/ LevelRemembered(kwl) /\ l = kwl.opt_set_fan
                    \/ /\ StepPending(kwl) /\ kwl._fan_auto = 0
                       /\ l = kwl._fan_level + (IF kwl.opt_set_fan = FanUp
                                                THEN 1 ELSE -1)]_vars
  /\ [][TurnStep /\ ServesFan /\ kwl.opt_set_fan = FanAuto
          => out'.sent = <<WriteFrame16(Var_35_fan_level, FanAuto, 1)>>]_vars
  /\ [][TurnStep /\ ServesFan /\ StepPending(kwl) /\ kwl._fan_level = -1
          => out'.sent = <<>> /\ kwl' = kwl]_vars

\* the third turn sent the disable-auto write of an up from level 3 and
\* "down" was pressed before the fourth: the level 4 is gone
C31_Witness ==
  /\ out.op = "key" /\ out.arg = "down" /\ our_cnt = 3
  /\ kwl.opt_set_fan = FanDown /\ kwl._fan_level = -1
  /\ kwl._status_buf[10] = 3 /\ kwl._status_buf[11] = 1

----------------------------------------------------------------------------
(* Termination of a single run (specification SpecOnce): the command lines *)
(* without -l, with the cue arriving again and again (weak fairness of     *)
(* Turn) and the program's own steps taken.                                *)

OnceLines == {cl \in CommandLines : \A i \in 1..Len(cl) : cl[i].c # "l"}

InitOnce ==
  /\ kwl = KwlInit
  /\ our_cnt = 0
  /\ _terminate = FALSE
  /\ _interactive = FALSE
  /\ buf = <<>>
  /\ idx = 0
  /\ pc = "scan"
  /\ argv \in OnceLines
  /\ last4 = <<>>
  /\ out = NoOut("init")

NextOnce == Scan \/ StartLoop \/ Turn \/ Frame \/ Finish

SpecOnce ==
  /\ InitOnce /\ [][NextOnce]_vars
  /\ WF_vars(Scan) /\ WF_vars(StartLoop) /\ WF_vars(Turn) /\ WF_vars(Finish)

\* C32: a run without loop mode that entered the receive loop ends: the
\* first turn sends nothing, the second the sensor read, every later turn
\* sends one frame of a pending intent, and the turn that finds no intent
\* left sends nothing and signals termination; the loop is then left, no
\* further turn is taken and nothing more is sent.
C32_RunTerminates ==
  /\ [](pc = "loop" => <>(pc = "done" /\ _terminate))
  /\ [][TurnStep /\ our_cnt >= 2
          => \/ Len(out'.sent) = 1 /\ ~_terminate' /\ ~NoIntent(kwl)
             \/ out'.sent = <<>> /\ _terminate' /\ NoIntent(kwl)]_vars
  /\ [][TurnStep /\ our_cnt < 2
          => /\ ~_terminate'
             /\ out'.sent = IF our_cnt = 1 THEN <<ReadFrame(Var_3a_sensors_temp)>>
                            ELSE <<>>]_vars
  /\ [][(pc = "exit" \/ pc = "done")
          => out'.sent = <<>> /\ our_cnt' = our_cnt]_vars

\* the run armed with every intent of the command line has ended
C32_Witness ==
  /\ pc = "done" /\ _terminate /\ our_cnt > 10 /\ NoIntent(kwl)

----------------------------------------------------------------------------
(* Reads of got_frame (specification SpecBus, continued)                   *)

\* C33: got_frame takes at least 4 and at most the remaining bytes for each
\* paket, ends within the buffer and reads no byte outside it: what it
\* decodes does not depend on the bytes behind the buffer.
C33_DecodesWithinBuffer ==
  [][pc = "loop" /\ out'.op = "inbound"
       => /\ \A i \in 1..Len(out'.log) :
               /\ out'.log[i].size >= 4
               /\ out'.log[i].off + out'.log[i].size <= idx'
          /\ \A g \in Indeterminate :
               GotFrame(kwl, buf', idx', g) = GotFrame(kwl, buf', idx', 0)]_vars

====
